---- MODULE Spec2Model ----
(***************************************************************************)
(* A model of the decode-to-microcode core of the MOS 6502 / CHIP-8        *)
(* emulators: the address map, the 6502 operation generators and the       *)
(* CHIP-8 operation generators, with the step loop that applies them.      *)
(***************************************************************************)
EXTENDS Integers, Sequences, FiniteSets, TLC

VARIABLES
    amap,     \* the AddressMap under construction / in use: [live, inner]
    mlast,    \* the last AddressMap call and its result
    mprev,    \* the call before it
    cpu,      \* the MOS6502 register file: acc, x, y, sp, ps, pc
    bus,      \* the MOS6502 address_map (entries as in `inner`)
    last,     \* the last MOS6502 step: what it saw, generated and returned
    chip,     \* the Chip8: v, i, pc, sp, stack, dt, st, interrupt, display,
              \* address_space
    clast     \* the last Chip8 step: what it saw, generated and returned

mapVars == <<amap, mlast, mprev>>

cpuVars == <<cpu, bus, last>>

chipVars == <<chip, clast>>

vars == <<amap, mlast, mprev, cpu, bus, last, chip, clast>>

(***************************************************************************)
(* Bounds of the model.                                                    *)
(***************************************************************************)
\* addresses of the address-map exploration are 0..MaxAddr
MaxAddr == 2
\* at most this many successful register calls on one map
MaxRanges == 2
\* at most this many steps of a processor after it is set up
MaxSteps == 1
\* at most this many calls of generate on one instruction and processor
MaxCalls == 2
\* at most this many steps of a processor running a program of several
\* instructions
MaxProgram == 4

Byte == 0..255

\* bytes written through the address map in the exploration
WriteVals == {1, 255}

(***************************************************************************)
(* Range<O>: a half-open interval start..end (std::ops::Range).            *)
(***************************************************************************)
MkRange(s, e) == [start |-> s, end |-> e]

RangeContains(r, a) == r.start <= a /\ a < r.end

RangeInputs == {MkRange(s, e) : s \in 0..MaxAddr, e \in 0..(MaxAddr + 1)}

(***************************************************************************)
(* The device behind a range (address_map::memory): a zeroed byte array,   *)
(* kept as the bytes written so far; a read-only device rejects writes.    *)
(***************************************************************************)
NewDevice(writable) == [writable |-> writable, bytes |-> <<>>]

DevRead(d, a) == IF a \in DOMAIN d.bytes THEN d.bytes[a] ELSE 0

DevWriteOk(d) == d.writable

DevWrite(d, a, v) ==
    [d EXCEPT !.bytes = [x \in (DOMAIN d.bytes) \cup {a} |->
                            IF x = a THEN v ELSE d.bytes[x]]]

(***************************************************************************)
(* AddressMap: `inner` is the HashMap<Range, Box<dyn Addressable>>, kept   *)
(* as the sequence of its entries in the order keys() iterates them.       *)
(***************************************************************************)
NewMap == << >>

Entry(r, d) == [range |-> r, dev |-> d]

\* the per-key test of register: the new range is refused when a key
\* contains the new range's start or its end
OverlapsKey(key, range) ==
    RangeContains(key, range.start) \/ RangeContains(key, range.end)

RegisterOk(inner, range) ==
    \A i \in 1..Len(inner) : ~OverlapsKey(inner[i].range, range)

\* HashMap::insert: an equal key keeps its place and takes the new value; a new
\* key lands at position p of the iteration order
InsertAt(inner, p, e) ==
    IF \E i \in 1..Len(inner) : inner[i].range = e.range
    THEN [i \in 1..Len(inner) |->
            IF inner[i].range = e.range THEN e ELSE inner[i]]
    ELSE SubSeq(inner, 1, p - 1) \o <<e>> \o SubSeq(inner, p, Len(inner))

\* keys().filter(|key| key.contains(&addr)).next()
Containing(inner, addr) ==
    {i \in 1..Len(inner) : RangeContains(inner[i].range, addr)}

Allocated(inner, addr) == Containing(inner, addr) /= {}

FirstContaining(inner, addr) ==
    CHOOSE i \in Containing(inner, addr) :
        \A j \in Containing(inner, addr) : i <= j

\* a read that takes the device at the offset into its range
MapReadRelative(inner, addr) ==
    IF Allocated(inner, addr)
    THEN DevRead(inner[FirstContaining(inner, addr)].dev,
                 addr - inner[FirstContaining(inner, addr)].range.start)
    ELSE 0

MapRead(inner, addr) ==
    IF Allocated(inner, addr)
    THEN DevRead(inner[FirstContaining(inner, addr)].dev, addr)
    ELSE 0

MapWriteOk(inner, addr) ==
    /\ Allocated(inner, addr)
    /\ DevWriteOk(inner[FirstContaining(inner, addr)].dev)

\* a write that, unrouted, falls through to the first device
MapWriteFallThrough(inner, addr, value) ==
    IF MapWriteOk(inner, addr)
    THEN [inner EXCEPT ![FirstContaining(inner, addr)].dev =
                            DevWrite(@, addr, value)]
    ELSE IF Len(inner) > 0
    THEN [inner EXCEPT ![1].dev = DevWrite(@, addr, value)]
    ELSE inner

MapWrite(inner, addr, value) ==
    IF MapWriteOk(inner, addr)
    THEN [inner EXCEPT ![FirstContaining(inner, addr)].dev =
                            DevWrite(@, addr, value)]
    ELSE inner

MapWriteErr(inner, addr) ==
    IF ~Allocated(inner, addr) THEN "unallocated"
    ELSE IF ~MapWriteOk(inner, addr) THEN "rejected"
    ELSE "none"

(***************************************************************************)
(* The address map driven by its callers.                                  *)
(***************************************************************************)
NoCall == [op |-> "none"]

\* no processor is built while the address map is exercised on its own
NoCpu == [present |-> FALSE]

InitMap ==
    /\ amap = [live |-> TRUE, inner |-> NewMap]
    /\ mlast = [op |-> "new"]
    /\ mprev = NoCall
    /\ cpu = NoCpu /\ bus = NewMap /\ last = NoCall
    /\ chip = NoCpu /\ clast = NoCall

\* AddressMap::new()
New ==
    /\ ~amap.live
    /\ amap' = [live |-> TRUE, inner |-> NewMap]
    /\ mlast' = [op |-> "new"]
    /\ mprev' = NoCall
    /\ UNCHANGED <<cpuVars, chipVars>>

\* register(self, range, addr_space): self is consumed; Ok hands the map back
\* with the entry inserted, Err hands back only the message
Register ==
    /\ amap.live
    /\ mlast.op \in {"new", "register"}
    /\ Len(amap.inner) < MaxRanges
    /\ \E range \in RangeInputs, writable \in BOOLEAN,
          p \in 1..(Len(amap.inner) + 1) :
        LET ok == RegisterOk(amap.inner, range) IN
        /\ amap' = IF ok
                   THEN [live |-> TRUE,
                         inner |-> InsertAt(amap.inner, p,
                                            Entry(range, NewDevice(writable)))]
                   ELSE [live |-> FALSE, inner |-> NewMap]
        /\ mlast' = [op |-> "register", range |-> range, ok |-> ok,
                     before |-> amap.inner]
        /\ mprev' = NoCall
        /\ UNCHANGED <<cpuVars, chipVars>>

\* read(&self, addr); the exploration ends a map's life with one read
Read ==
    /\ amap.live
    /\ mlast.op /= "read"
    /\ \E addr \in 0..MaxAddr :
        /\ mlast' = [op |-> "read", addr |-> addr,
                     out |-> MapRead(amap.inner, addr),
                     before |-> amap.inner]
        /\ mprev' = mlast
        /\ UNCHANGED <<amap, cpuVars, chipVars>>

\* write(&mut self, addr, value); the exploration writes once to a built map
Write ==
    /\ amap.live
    /\ mlast.op \in {"new", "register"}
    /\ \E addr \in 0..MaxAddr, value \in WriteVals :
        /\ amap' = [amap EXCEPT !.inner = MapWrite(@, addr, value)]
        /\ mlast' = [op |-> "write", addr |-> addr, value |-> value,
                     err |-> MapWriteErr(amap.inner, addr),
                     before |-> amap.inner]
        /\ mprev' = mlast
        /\ UNCHANGED <<cpuVars, chipVars>>

NextMap == New \/ Register \/ Read \/ Write

SpecMap == InitMap /\ [][NextMap]_vars

(***************************************************************************)
(* Claims about the address map.                                           *)
(***************************************************************************)
\* the two half-open intervals share an address
SharesAddress(r1, r2) ==
    \E a \in 0..(MaxAddr + 1) :
        /\ r1.start <= a /\ a < r1.end
        /\ r2.start <= a /\ a < r2.end

Disjoint(inner) ==
    \A i, j \in 1..Len(inner) :
        i /= j => ~SharesAddress(inner[i].range, inner[j].range)

InSomeRange(inner, a) ==
    \E i \in 1..Len(inner) : inner[i].range.start <= a /\ a < inner[i].range.end

InWritableRange(inner, a) ==
    \E i \in 1..Len(inner) :
        /\ inner[i].range.start <= a /\ a < inner[i].range.end
        /\ inner[i].dev.writable

\* C1: after any sequence of register calls no two intervals held by the
\* map share an address (a range that encloses a registered interval is
\* rejected).
C1_NoTwoIntervalsOverlap == Disjoint(amap.inner)

\* C2: register succeeds whenever the new (non-empty) range shares no address
\* with any registered interval, adjacency included, whatever the
\* registration order.
C2_DisjointRangeIsAccepted ==
    (mlast.op = "register" /\ mlast.range.start < mlast.range.end /\
     \A i \in 1..Len(mlast.before) :
        ~SharesAddress(mlast.before[i].range, mlast.range))
    => mlast.ok

\* C3: on a map with non-overlapping ranges, read(a) right after write(a, b)
\* returns b when a lies in a range with a writable device and 0 when a lies in
\* no range; the read leaves the map as it was.
C3_ReadAfterWrite ==
    (mlast.op = "read" /\ mprev.op = "write" /\ mprev.addr = mlast.addr
        /\ Disjoint(mprev.before))
    => /\ InWritableRange(mprev.before, mlast.addr) => mlast.out = mprev.value
       /\ ~InSomeRange(mprev.before, mlast.addr) => mlast.out = 0
       /\ amap.inner = mlast.before

C3_Witness ==
    /\ mlast.op = "read" /\ mprev.op = "write" /\ mprev.addr = mlast.addr
    /\ Len(mprev.before) = 2 /\ Disjoint(mprev.before)
    /\ InWritableRange(mprev.before, mlast.addr)
    /\ mprev.before[1].range.start > 0
    /\ mlast.out = 255

\* C4: a write outside every registered interval reports the unallocated
\* error and leaves every device as it was; a write to an allocated address
\* changes nothing but the byte at that address.
C4_WriteFootprint ==
    mlast.op = "write" =>
        LET before == mlast.before
            after == amap.inner
        IN  /\ Len(after) = Len(before)
            /\ \A i \in 1..Len(before) :
                /\ after[i].range = before[i].range
                /\ after[i].dev.writable = before[i].dev.writable
                /\ \A x \in 0..(MaxAddr + 1) :
                    x /= mlast.addr =>
                        DevRead(after[i].dev, x) = DevRead(before[i].dev, x)
            /\ ~InSomeRange(before, mlast.addr) =>
                    mlast.err = "unallocated" /\ after = before
            /\ InSomeRange(before, mlast.addr) => mlast.err /= "unallocated"

C4_Witness ==
    /\ mlast.op = "write" /\ mlast.err = "unallocated"
    /\ Len(mlast.before) = 2
    /\ \E i \in 1..2 : mlast.before[i].dev.writable
                        /\ mlast.before[i].range.end > mlast.before[i].range.start

(***************************************************************************)
(* MOS 6502: byte and word arithmetic.                                     *)
(***************************************************************************)
Word == 0..65535

\* wrapping at the register's width
Wrap8(n) == n % 256

Wrap16(n) == n % 65536

\* bit_is_set!(value, place)
bit_is_set(value, place) == (value \div (2 ^ place)) % 2 = 1

BitsOf(v) == {i \in 0..7 : bit_is_set(v, i)}

ByteOf(S) ==
    LET b(i) == IF i \in S THEN 2 ^ i ELSE 0
    IN  b(0) + b(1) + b(2) + b(3) + b(4) + b(5) + b(6) + b(7)

BitAnd(a, b) == ByteOf(BitsOf(a) \cap BitsOf(b))

BitOr(a, b) == ByteOf(BitsOf(a) \cup BitsOf(b))

BitXor(a, b) == ByteOf((BitsOf(a) \cup BitsOf(b)) \ (BitsOf(a) \cap BitsOf(b)))

\* u16::from_le_bytes([lsb, msb])
from_le_bytes(lsb, msb) == lsb + 256 * msb

\* `offset as u16` of the i8 held in a relative operand byte
SignExtend(b) == IF b >= 128 THEN b + 65280 ELSE b

(***************************************************************************)
(* Page: the 256-byte page an address falls in.                            *)
(***************************************************************************)
PageFrom(addr) ==
    LET upper_page_bound == addr + (255 - (addr % 256))
        lower_page_bound == upper_page_bound - 255
    IN  [lower |-> lower_page_bound, upper |-> upper_page_bound]

\* a page test that looks at the upper bound only
PageContainsBelowUpper(page, addr) == addr <= page.upper

PageContains(page, addr) == page.lower <= addr /\ addr <= page.upper

(***************************************************************************)
(* Operand<u8>: a byte with the carry, negative and zero it came with.     *)
(***************************************************************************)
OperandWithFlags(inner, carry, negative, zero) ==
    [carry |-> carry, negative |-> negative, zero |-> zero, inner |-> inner]

OperandNew(inner) ==
    OperandWithFlags(inner, FALSE, bit_is_set(inner, 7), inner = 0)

\* impl Add: overflowing_add and the flags of the sum
OperandAdd(self, other) ==
    LET sum == Wrap8(self.inner + other.inner)
    IN  OperandWithFlags(sum, self.inner + other.inner > 255,
                         bit_is_set(sum, 7), sum = 0)

twos_complement_add(self, other, carry) ==
    LET sum == OperandAdd(self, other)
        lhs == self.inner
        rhs == other.inner
    IN  [value |-> sum,
         overflow |-> \/ (~bit_is_set(lhs, 7) /\ ~bit_is_set(rhs, 7) /\ carry)
                      \/ (bit_is_set(lhs, 7) /\ bit_is_set(rhs, 7) /\ ~carry)]

\* impl Sub: overflowing_sub and the flags of the difference
OperandSub(self, other) ==
    LET difference == Wrap8(self.inner - other.inner)
    IN  OperandWithFlags(difference, self.inner < other.inner,
                         bit_is_set(difference, 7), difference = 0)

twos_complement_sub(self, other, carry) ==
    LET carry_bit == IF carry THEN 1 ELSE 0
        rhs_ones_complement ==
            OperandAdd(OperandNew(255 - other.inner), OperandNew(carry_bit))
    IN  twos_complement_add(self, rhs_ones_complement, carry)

\* the derived PartialOrd of Operand: fields compared in declaration order
\* carry, negative, zero, inner, with false < true
OperandKey(o) ==
    <<IF o.carry THEN 1 ELSE 0, IF o.negative THEN 1 ELSE 0,
      IF o.zero THEN 1 ELSE 0, o.inner>>

OperandGe(lhs, rhs) ==
    LET l == OperandKey(lhs)
        r == OperandKey(rhs)
    IN  \/ l = r
        \/ \E i \in 1..4 : l[i] > r[i] /\ \A j \in 1..(i - 1) : l[j] = r[j]

(***************************************************************************)
(* MOS 6502: the register file and the program status flags.               *)
(***************************************************************************)
ProgramStatusFlags ==
    {"Carry", "Zero", "Interrupt", "Decimal", "Break", "Overflow", "Negative"}

PsNew(carry, zero, interrupt, decimal, brk, overflow, negative) ==
    [carry |-> carry, zero |-> zero, interrupt |-> interrupt,
     decimal |-> decimal, brk |-> brk, overflow |-> overflow,
     negative |-> negative]

\* ps.read(): the flags packed into a byte
PsRead(ps) ==
    ByteOf({i \in 0..7 :
        \/ (i = 0 /\ ps.carry) \/ (i = 1 /\ ps.zero) \/ (i = 2 /\ ps.interrupt)
        \/ (i = 3 /\ ps.decimal) \/ (i = 4 /\ ps.brk)
        \/ (i = 6 /\ ps.overflow) \/ (i = 7 /\ ps.negative)})

\* ps.write(byte): the flags unpacked from a byte
PsWrite(v) ==
    PsNew(bit_is_set(v, 0), bit_is_set(v, 1), bit_is_set(v, 2),
          bit_is_set(v, 3), bit_is_set(v, 4), bit_is_set(v, 6),
          bit_is_set(v, 7))

PsSetFlag(ps, flag, value) ==
    CASE flag = "Carry" -> [ps EXCEPT !.carry = value]
      [] flag = "Zero" -> [ps EXCEPT !.zero = value]
      [] flag = "Interrupt" -> [ps EXCEPT !.interrupt = value]
      [] flag = "Decimal" -> [ps EXCEPT !.decimal = value]
      [] flag = "Break" -> [ps EXCEPT !.brk = value]
      [] flag = "Overflow" -> [ps EXCEPT !.overflow = value]
      [] flag = "Negative" -> [ps EXCEPT !.negative = value]

Read8bitRegister(c, register) ==
    CASE register = "ACC" -> c.acc
      [] register = "X" -> c.x
      [] register = "Y" -> c.y
      [] register = "SP" -> c.sp
      [] register = "PS" -> PsRead(c.ps)

With8bitRegister(c, register, value) ==
    CASE register = "ACC" -> [c EXCEPT !.acc = value]
      [] register = "X" -> [c EXCEPT !.x = value]
      [] register = "Y" -> [c EXCEPT !.y = value]
      [] register = "SP" -> [c EXCEPT !.sp = value]
      [] register = "PS" -> [c EXCEPT !.ps = PsWrite(value)]

(***************************************************************************)
(* MOS 6502: microcode, and what applying one does.                        *)
(***************************************************************************)
WriteMemory(address, value) ==
    [kind |-> "WriteMemory", target |-> address, value |-> value]

Write8bitRegister(register, value) ==
    [kind |-> "Write8bitRegister", target |-> register, value |-> value]

Inc8bitRegister(register, value) ==
    [kind |-> "Inc8bitRegister", target |-> register, value |-> value]

Dec8bitRegister(register, value) ==
    [kind |-> "Dec8bitRegister", target |-> register, value |-> value]

Write16bitRegister(register, value) ==
    [kind |-> "Write16bitRegister", target |-> register, value |-> value]

Inc16bitRegister(register, value) ==
    [kind |-> "Inc16bitRegister", target |-> register, value |-> value]

Dec16bitRegister(register, value) ==
    [kind |-> "Dec16bitRegister", target |-> register, value |-> value]

\* gen_flag_set_microcode!(flag, value)
SetFlag(flag, value) ==
    [kind |-> "SetFlag", target |-> flag, value |-> value]

\* the microcodes that touch the register file (PC is the only word register)
ApplyToCpu(c, mc) ==
    CASE mc.kind = "Write8bitRegister" ->
            With8bitRegister(c, mc.target, mc.value)
      [] mc.kind = "Inc8bitRegister" ->
            With8bitRegister(c, mc.target,
                Wrap8(Read8bitRegister(c, mc.target) + mc.value))
      [] mc.kind = "Dec8bitRegister" ->
            With8bitRegister(c, mc.target,
                Wrap8(Read8bitRegister(c, mc.target) - mc.value))
      [] mc.kind = "Write16bitRegister" -> [c EXCEPT !.pc = mc.value]
      [] mc.kind = "Inc16bitRegister" ->
            [c EXCEPT !.pc = Wrap16(c.pc + mc.value)]
      [] mc.kind = "Dec16bitRegister" ->
            [c EXCEPT !.pc = Wrap16(c.pc - mc.value)]
      [] mc.kind = "SetFlag" ->
            [c EXCEPT !.ps = PsSetFlag(c.ps, mc.target, mc.value)]
      [] OTHER -> c

\* WriteMemory goes through AddressMap::write; an Err aborts the step
MicrocodeFails(inner, mc) ==
    mc.kind = "WriteMemory" /\ ~MapWriteOk(inner, mc.target)

ApplyToBus(inner, mc) ==
    IF mc.kind = "WriteMemory"
    THEN MapWrite(inner, mc.target, mc.value)
    ELSE inner

\* the microcodes applied in list order from position k; `failed` is the
\* position of the microcode that failed, 0 when none did
RECURSIVE ExecuteFrom(_, _, _, _)
ExecuteFrom(c, inner, mcs, k) ==
    IF k > Len(mcs)
    THEN [cpu |-> c, bus |-> inner, failed |-> 0]
    ELSE IF MicrocodeFails(inner, mcs[k])
    THEN [cpu |-> c, bus |-> inner, failed |-> k]
    ELSE ExecuteFrom(ApplyToCpu(c, mcs[k]), ApplyToBus(inner, mcs[k]),
                     mcs, k + 1)

(***************************************************************************)
(* MOS 6502: addressing-mode unpackers.  An unchecked `+` or `-` of the    *)
(* source is computed wrapped and reported in `ovf`: a build with overflow *)
(* checks panics there, a build without them continues with the wrapped    *)
(* value.                                                                  *)
(***************************************************************************)
add_index_to_address(addr, index) == Wrap16(addr + index)

\* the zero-page index sum carried into page one instead of wrapping
add_index_to_zeropage_address_carried(zeropage_addr, index) ==
    zeropage_addr + index

add_index_to_zeropage_address(zeropage_addr, index) ==
    Wrap8(zeropage_addr + index)

dereference_indexed_indirect_address(inner, base_addr, index) ==
    [addr |-> from_le_bytes(
                MapRead(inner, Wrap8(base_addr + index)),
                MapRead(inner, Wrap8(base_addr + Wrap8(index + 1)))),
     ovf |-> index + 1 > 255]

dereference_indirect_indexed_address(inner, base_addr, index) ==
    LET pointer == from_le_bytes(MapRead(inner, base_addr),
                                 MapRead(inner, Wrap8(base_addr + 1)))
    IN  [addr |-> Wrap16(pointer + index), ovf |-> pointer + index > 65535]

dereference_address_to_operand(inner, addr, index) ==
    OperandNew(MapRead(inner, add_index_to_address(addr, index)))

stack_pointer_from_byte_value(value) == from_le_bytes(value, 1)

\* MOps::new(offset, cycles, microcode), with the overflow report
MOpsNew(offset, cycles, microcode, ovf) ==
    [offset |-> offset, cycles |-> cycles, microcode |-> microcode,
     ovf |-> ovf]

\* the right-hand operand of a reading instruction and the page penalty the
\* generator adds to its cycles
ReadOperand(c, inner, mode, opnd) ==
    CASE mode = "Immediate" ->
            [operand |-> OperandNew(opnd), penalty |-> 0, ovf |-> FALSE]
      [] mode \in {"Absolute", "ZeroPage"} ->
            [operand |-> dereference_address_to_operand(inner, opnd, 0),
             penalty |-> 0, ovf |-> FALSE]
      [] mode \in {"AbsoluteIndexedWithX", "AbsoluteIndexedWithY"} ->
            LET index == IF mode = "AbsoluteIndexedWithX" THEN c.x ELSE c.y
                indexed_addr == add_index_to_address(opnd, index)
            IN  [operand |->
                    dereference_address_to_operand(inner, indexed_addr, 0),
                 penalty |-> IF ~PageContains(PageFrom(opnd), indexed_addr)
                             THEN 1 ELSE 0,
                 ovf |-> FALSE]
      [] mode = "IndirectYIndexed" ->
            LET d == dereference_indirect_indexed_address(inner, opnd, c.y)
            IN  [operand |-> OperandNew(MapRead(inner, d.addr)),
                 penalty |-> IF ~PageContains(PageFrom(opnd), d.addr)
                             THEN 1 ELSE 0,
                 ovf |-> d.ovf]
      [] mode = "XIndexedIndirect" ->
            LET d == dereference_indexed_indirect_address(inner, opnd, c.x)
            IN  [operand |-> OperandNew(MapRead(inner, d.addr)),
                 penalty |-> 0, ovf |-> d.ovf]
      [] mode \in {"ZeroPageIndexedWithX", "ZeroPageIndexedWithY"} ->
            LET index == IF mode = "ZeroPageIndexedWithX" THEN c.x ELSE c.y
                indexed_addr == add_index_to_zeropage_address(opnd, index)
            IN  [operand |->
                    dereference_address_to_operand(inner, indexed_addr, 0),
                 penalty |-> 0, ovf |-> FALSE]

\* the address a storing or read-modify-write instruction works on
TargetAddress(c, inner, mode, opnd) ==
    CASE mode \in {"Absolute", "ZeroPage"} -> [addr |-> opnd, ovf |-> FALSE]
      [] mode = "AbsoluteIndexedWithX" ->
            [addr |-> add_index_to_address(opnd, c.x), ovf |-> FALSE]
      [] mode = "AbsoluteIndexedWithY" ->
            [addr |-> add_index_to_address(opnd, c.y), ovf |-> FALSE]
      [] mode = "IndirectYIndexed" ->
            dereference_indirect_indexed_address(inner, opnd, c.y)
      [] mode = "XIndexedIndirect" ->
            dereference_indexed_indirect_address(inner, opnd, c.x)
      [] mode = "ZeroPageIndexedWithX" ->
            [addr |-> add_index_to_zeropage_address(opnd, c.x), ovf |-> FALSE]
      [] mode = "ZeroPageIndexedWithY" ->
            [addr |-> add_index_to_zeropage_address(opnd, c.y), ovf |-> FALSE]

(***************************************************************************)
(* MOS 6502: the generators, one per mnemonic or run of mnemonics.         *)
(***************************************************************************)
GenerateADC(c, inner, inst) ==
    LET r == ReadOperand(c, inner, inst.mode, inst.opnd)
        a == twos_complement_add(OperandNew(c.acc), r.operand, c.ps.carry)
    IN  MOpsNew(inst.offset, inst.cycles + r.penalty,
                <<SetFlag("Carry", a.value.carry),
                  SetFlag("Negative", a.value.negative),
                  SetFlag("Overflow", a.overflow),
                  SetFlag("Zero", a.value.zero),
                  Write8bitRegister("ACC", a.value.inner)>>,
                r.ovf)

GenerateSBC(c, inner, inst) ==
    LET r == ReadOperand(c, inner, inst.mode, inst.opnd)
        a == twos_complement_sub(OperandNew(c.acc), r.operand, c.ps.carry)
    IN  MOpsNew(inst.offset, inst.cycles + r.penalty,
                <<SetFlag("Carry", a.value.carry),
                  SetFlag("Negative", a.value.negative),
                  SetFlag("Overflow", a.overflow),
                  SetFlag("Zero", a.value.zero),
                  Write8bitRegister("ACC", a.value.inner)>>,
                r.ovf)

\* AND, EOR, ORA
GenerateLogic(c, inner, inst) ==
    LET r == ReadOperand(c, inner, inst.mode, inst.opnd)
        value == OperandNew(
            CASE inst.mnemonic = "AND" -> BitAnd(c.acc, r.operand.inner)
              [] inst.mnemonic = "EOR" -> BitXor(c.acc, r.operand.inner)
              [] inst.mnemonic = "ORA" -> BitOr(c.acc, r.operand.inner))
    IN  MOpsNew(inst.offset, inst.cycles + r.penalty,
                <<SetFlag("Negative", value.negative),
                  SetFlag("Zero", value.zero),
                  Write8bitRegister("ACC", value.inner)>>,
                r.ovf)

\* CMP, CPX, CPY
GenerateCompare(c, inner, inst) ==
    LET r == ReadOperand(c, inner, inst.mode, inst.opnd)
        rhs == r.operand
        lhs == OperandNew(CASE inst.mnemonic = "CMP" -> c.acc
                            [] inst.mnemonic = "CPX" -> c.x
                            [] inst.mnemonic = "CPY" -> c.y)
        carry == OperandGe(lhs, rhs)
        diff == OperandSub(lhs, rhs)
    IN  MOpsNew(inst.offset, inst.cycles + r.penalty,
                <<SetFlag("Carry", carry),
                  SetFlag("Negative", diff.negative),
                  SetFlag("Zero", diff.zero)>>,
                r.ovf)

\* LDA, LDX, LDY
GenerateLoad(c, inner, inst) ==
    LET r == ReadOperand(c, inner, inst.mode, inst.opnd)
        value == r.operand
        register == CASE inst.mnemonic = "LDA" -> "ACC"
                      [] inst.mnemonic = "LDX" -> "X"
                      [] inst.mnemonic = "LDY" -> "Y"
    IN  MOpsNew(inst.offset, inst.cycles + r.penalty,
                <<SetFlag("Negative", value.negative),
                  SetFlag("Zero", value.zero),
                  Write8bitRegister(register, value.inner)>>,
                r.ovf)

\* the stores setting Negative and Zero from the value, as the loads do
GenerateStoreSettingFlags(c, inner, inst) ==
    LET t == TargetAddress(c, inner, inst.mode, inst.opnd)
        value == CASE inst.mnemonic = "STA" -> c.acc
                   [] inst.mnemonic = "STX" -> c.x
                   [] inst.mnemonic = "STY" -> c.y
    IN  MOpsNew(inst.offset, inst.cycles,
                <<SetFlag("Negative", value >= 128), SetFlag("Zero", value = 0),
                  WriteMemory(t.addr, value)>>,
                t.ovf)

\* STA, STX, STY
GenerateStore(c, inner, inst) ==
    LET t == TargetAddress(c, inner, inst.mode, inst.opnd)
        value == CASE inst.mnemonic = "STA" -> c.acc
                   [] inst.mnemonic = "STX" -> c.x
                   [] inst.mnemonic = "STY" -> c.y
    IN  MOpsNew(inst.offset, inst.cycles, <<WriteMemory(t.addr, value)>>,
                t.ovf)

\* DEC that writes memory before it sets the flags
GenerateDECWriteFirst(c, inner, inst) ==
    LET t == TargetAddress(c, inner, inst.mode, inst.opnd)
        value == OperandSub(dereference_address_to_operand(inner, t.addr, 0),
                            OperandNew(1))
    IN  MOpsNew(inst.offset, inst.cycles,
                <<WriteMemory(t.addr, value.inner),
                  SetFlag("Negative", value.negative),
                  SetFlag("Zero", value.zero)>>,
                t.ovf)

GenerateDEC(c, inner, inst) ==
    LET t == TargetAddress(c, inner, inst.mode, inst.opnd)
        value == OperandSub(dereference_address_to_operand(inner, t.addr, 0),
                            OperandNew(1))
    IN  MOpsNew(inst.offset, inst.cycles,
                <<SetFlag("Negative", value.negative),
                  SetFlag("Zero", value.zero),
                  WriteMemory(t.addr, value.inner)>>,
                t.ovf)

GenerateINC(c, inner, inst) ==
    LET t == TargetAddress(c, inner, inst.mode, inst.opnd)
        value == OperandAdd(dereference_address_to_operand(inner, t.addr, 0),
                            OperandNew(1))
    IN  MOpsNew(inst.offset, inst.cycles,
                <<SetFlag("Negative", value.negative),
                  SetFlag("Zero", value.zero),
                  WriteMemory(t.addr, value.inner)>>,
                t.ovf)

\* DEX and DEY: both take the flags from X - 1
GenerateDEXY(c, inst) ==
    LET value == OperandSub(OperandNew(c.x), OperandNew(1))
    IN  MOpsNew(inst.offset, inst.cycles,
                <<SetFlag("Negative", value.negative),
                  SetFlag("Zero", value.zero),
                  Dec8bitRegister(IF inst.mnemonic = "DEX" THEN "X" ELSE "Y",
                                  1)>>,
                FALSE)

\* INX and INY
GenerateINXY(c, inst) ==
    LET register == IF inst.mnemonic = "INX" THEN "X" ELSE "Y"
        value == OperandAdd(OperandNew(Read8bitRegister(c, register)),
                            OperandNew(1))
    IN  MOpsNew(inst.offset, inst.cycles,
                <<SetFlag("Negative", value.negative),
                  SetFlag("Zero", value.zero),
                  Write8bitRegister(register, value.inner)>>,
                FALSE)

\* BCC .. BVS: the flag test handed to branch_on_case
BranchCondition(c, mnemonic) ==
    CASE mnemonic = "BCC" -> ~c.ps.carry
      [] mnemonic = "BCS" -> c.ps.carry
      [] mnemonic = "BEQ" -> c.ps.zero
      [] mnemonic = "BMI" -> c.ps.negative
      [] mnemonic = "BNE" -> ~c.ps.zero
      [] mnemonic = "BPL" -> ~c.ps.negative
      [] mnemonic = "BVC" -> ~c.ps.overflow
      [] mnemonic = "BVS" -> c.ps.overflow

branch_on_case(cond, branch_offset, inst_offset, cycles, c) ==
    LET jmp_on_eq == Wrap16(c.pc + SignExtend(branch_offset))
        mc == IF cond
              THEN <<Write16bitRegister("PC", Wrap16(jmp_on_eq - inst_offset))>>
              ELSE << >>
        branch_penalty ==
            IF cond /\ ~PageContains(PageFrom(c.pc), jmp_on_eq) THEN 2
            ELSE IF cond THEN 1
            ELSE 0
    IN  MOpsNew(inst_offset, cycles + branch_penalty, mc, FALSE)

\* CLC, CLD, CLI, CLV and SEC, SED, SEI
GenerateFlag(inst) ==
    LET flag == CASE inst.mnemonic \in {"CLC", "SEC"} -> "Carry"
                  [] inst.mnemonic \in {"CLD", "SED"} -> "Decimal"
                  [] inst.mnemonic \in {"CLI", "SEI"} -> "Interrupt"
                  [] inst.mnemonic = "CLV" -> "Overflow"
    IN  MOpsNew(inst.offset, inst.cycles,
                <<SetFlag(flag, inst.mnemonic \in {"SEC", "SED", "SEI"})>>,
                FALSE)

\* JMP Absolute and JMP Indirect: the target less the instruction's length
GenerateJMP(inner, inst) ==
    IF inst.mode = "Absolute"
    THEN MOpsNew(inst.offset, inst.cycles,
                 <<Write16bitRegister("PC", Wrap16(inst.opnd - inst.offset))>>,
                 inst.opnd < inst.offset)
    ELSE LET lsb == MapRead(inner, inst.opnd)
             msb == MapRead(inner, Wrap16(inst.opnd + 1))
             addr == from_le_bytes(lsb, msb)
         IN  MOpsNew(inst.offset, inst.cycles,
                     <<Write16bitRegister("PC", Wrap16(addr - inst.offset))>>,
                     inst.opnd + 1 > 65535 \/ addr < inst.offset)

GenerateNOP(inst) == MOpsNew(inst.offset, inst.cycles, << >>, FALSE)

\* PHA and PHP
GeneratePush(c, inst) ==
    LET value == IF inst.mnemonic = "PHA" THEN c.acc ELSE PsRead(c.ps)
    IN  MOpsNew(inst.offset, inst.cycles,
                <<WriteMemory(stack_pointer_from_byte_value(c.sp), value),
                  Dec8bitRegister("SP", 1)>>,
                FALSE)

\* PLA reading the slot SP points at, before the increment
GeneratePLAAtSp(c, inner, inst) ==
    LET value == dereference_address_to_operand(
                    inner, stack_pointer_from_byte_value(c.sp), 0)
    IN  MOpsNew(inst.offset, inst.cycles,
                <<Inc8bitRegister("SP", 1),
                  SetFlag("Negative", value.negative),
                  SetFlag("Zero", value.zero),
                  Write8bitRegister("ACC", value.inner)>>,
                FALSE)

GeneratePLA(c, inner, inst) ==
    LET sp == Wrap8(c.sp + 1)
        value == dereference_address_to_operand(
                    inner, stack_pointer_from_byte_value(sp), 0)
    IN  MOpsNew(inst.offset, inst.cycles,
                <<Inc8bitRegister("SP", 1),
                  SetFlag("Negative", value.negative),
                  SetFlag("Zero", value.zero),
                  Write8bitRegister("ACC", value.inner)>>,
                FALSE)

GeneratePLP(c, inner, inst) ==
    LET sp == Wrap8(c.sp + 1)
        value == dereference_address_to_operand(
                    inner, stack_pointer_from_byte_value(sp), 0)
    IN  MOpsNew(inst.offset, inst.cycles,
                <<Inc8bitRegister("SP", 1),
                  Write8bitRegister("PS", value.inner)>>,
                FALSE)

\* TAX, TAY, TSX, TXA, TXS, TYA
GenerateTransfer(c, inst) ==
    LET from == CASE inst.mnemonic \in {"TAX", "TAY"} -> "ACC"
                  [] inst.mnemonic = "TSX" -> "SP"
                  [] inst.mnemonic \in {"TXA", "TXS"} -> "X"
                  [] inst.mnemonic = "TYA" -> "Y"
        to == CASE inst.mnemonic \in {"TAX", "TSX"} -> "X"
                [] inst.mnemonic = "TAY" -> "Y"
                [] inst.mnemonic \in {"TXA", "TYA"} -> "ACC"
                [] inst.mnemonic = "TXS" -> "SP"
        value == OperandNew(Read8bitRegister(c, from))
    IN  IF inst.mnemonic = "TXS"
        THEN MOpsNew(inst.offset, inst.cycles,
                     <<Write8bitRegister("SP", value.inner)>>, FALSE)
        ELSE MOpsNew(inst.offset, inst.cycles,
                     <<SetFlag("Negative", value.negative),
                       SetFlag("Zero", value.zero),
                       Write8bitRegister(to, value.inner)>>,
                     FALSE)

\* a generator that remembers it was called: a later call costs a cycle more
GenerateCountingCalls(c, inner, inst) ==
    MOpsNew(inst.offset,
            IF last.op = "generate" THEN inst.cycles + 1 ELSE inst.cycles,
            << >>, FALSE)

\* Operation::generate: the generator of the decoded instruction, run on a
\* snapshot of the processor
Generate(c, inner, inst) ==
    CASE inst.mnemonic = "ADC" -> GenerateADC(c, inner, inst)
      [] inst.mnemonic = "SBC" -> GenerateSBC(c, inner, inst)
      [] inst.mnemonic \in {"AND", "EOR", "ORA"} -> GenerateLogic(c, inner, inst)
      [] inst.mnemonic \in {"CMP", "CPX", "CPY"} ->
            GenerateCompare(c, inner, inst)
      [] inst.mnemonic \in {"LDA", "LDX", "LDY"} -> GenerateLoad(c, inner, inst)
      [] inst.mnemonic \in {"STA", "STX", "STY"} -> GenerateStore(c, inner, inst)
      [] inst.mnemonic = "DEC" -> GenerateDEC(c, inner, inst)
      [] inst.mnemonic = "INC" -> GenerateINC(c, inner, inst)
      [] inst.mnemonic \in {"DEX", "DEY"} -> GenerateDEXY(c, inst)
      [] inst.mnemonic \in {"INX", "INY"} -> GenerateINXY(c, inst)
      [] inst.mnemonic \in {"BCC", "BCS", "BEQ", "BMI", "BNE", "BPL", "BVC",
                            "BVS"} ->
            branch_on_case(BranchCondition(c, inst.mnemonic), inst.opnd,
                           inst.offset, inst.cycles, c)
      [] inst.mnemonic \in {"CLC", "CLD", "CLI", "CLV", "SEC", "SED", "SEI"} ->
            GenerateFlag(inst)
      [] inst.mnemonic = "JMP" -> GenerateJMP(inner, inst)
      [] inst.mnemonic = "NOP" -> GenerateNOP(inst)
      [] inst.mnemonic \in {"PHA", "PHP"} -> GeneratePush(c, inst)
      [] inst.mnemonic = "PLA" -> GeneratePLA(c, inner, inst)
      [] inst.mnemonic = "PLP" -> GeneratePLP(c, inner, inst)
      [] inst.mnemonic \in {"TAX", "TAY", "TSX", "TXA", "TXS", "TYA"} ->
            GenerateTransfer(c, inst)

\* cycles without the trailing advance of PC
MOpsIntoCyclesNoAdvance(mops) ==
    [i \in 1..mops.cycles |-> IF i < mops.cycles THEN << >> ELSE mops.microcode]

\* the microcode and the increment of PC placed in the first cycle
MOpsIntoCyclesFirst(mops) ==
    [i \in 1..mops.cycles |->
        IF i > 1
        THEN << >>
        ELSE mops.microcode \o <<Inc16bitRegister("PC", mops.offset)>>]

\* From<MOps> for Vec<Vec<Microcode>>: cycles - 1 empty cycles, then the
\* microcode followed by the increment of PC by the offset
MOpsIntoCycles(mops) ==
    [i \in 1..mops.cycles |->
        IF i < mops.cycles
        THEN << >>
        ELSE mops.microcode \o <<Inc16bitRegister("PC", mops.offset)>>]

RECURSIVE Flatten(_)
Flatten(seqs) ==
    IF seqs = << >> THEN << >> ELSE Head(seqs) \o Flatten(Tail(seqs))

(***************************************************************************)
(* MOS 6502: decoding.  Each entry of the parser list is a mnemonic, an    *)
(* addressing mode, the opcode byte it expects and its base cycles.        *)
(***************************************************************************)
OperationParser ==
    <<<<"ADC", "Absolute", 109, 4>>,
      <<"ADC", "AbsoluteIndexedWithX", 125, 4>>,
      <<"ADC", "AbsoluteIndexedWithY", 121, 4>>,
      <<"ADC", "IndirectYIndexed", 113, 5>>,
      <<"ADC", "Immediate", 105, 2>>, <<"ADC", "XIndexedIndirect", 97, 6>>,
      <<"ADC", "ZeroPage", 101, 3>>,
      <<"ADC", "ZeroPageIndexedWithX", 117, 4>>,
      <<"AND", "Absolute", 45, 4>>,
      <<"AND", "AbsoluteIndexedWithX", 61, 4>>,
      <<"AND", "AbsoluteIndexedWithY", 57, 4>>,
      <<"AND", "IndirectYIndexed", 49, 5>>, <<"AND", "Immediate", 41, 2>>,
      <<"AND", "XIndexedIndirect", 33, 6>>, <<"AND", "ZeroPage", 37, 3>>,
      <<"AND", "ZeroPageIndexedWithX", 53, 4>>,
      <<"BCC", "Relative", 144, 2>>, <<"BCS", "Relative", 176, 2>>,
      <<"BEQ", "Relative", 240, 2>>, <<"BMI", "Relative", 48, 2>>,
      <<"BNE", "Relative", 208, 2>>, <<"BPL", "Relative", 16, 2>>,
      <<"BVC", "Relative", 80, 2>>, <<"BVS", "Relative", 112, 2>>,
      <<"CLC", "Implied", 24, 2>>, <<"CLD", "Implied", 216, 2>>,
      <<"CLI", "Implied", 88, 2>>, <<"CLV", "Implied", 184, 2>>,
      <<"CMP", "Absolute", 205, 4>>,
      <<"CMP", "AbsoluteIndexedWithX", 221, 4>>,
      <<"CMP", "AbsoluteIndexedWithY", 217, 4>>,
      <<"CMP", "IndirectYIndexed", 209, 5>>,
      <<"CMP", "Immediate", 201, 2>>,
      <<"CMP", "XIndexedIndirect", 193, 6>>, <<"CMP", "ZeroPage", 197, 3>>,
      <<"CMP", "ZeroPageIndexedWithX", 213, 4>>,
      <<"CPX", "Absolute", 236, 4>>, <<"CPX", "Immediate", 224, 2>>,
      <<"CPX", "ZeroPage", 228, 3>>, <<"CPY", "Absolute", 204, 4>>,
      <<"CPY", "Immediate", 192, 2>>, <<"CPY", "ZeroPage", 196, 3>>,
      <<"DEC", "Absolute", 206, 6>>,
      <<"DEC", "AbsoluteIndexedWithX", 222, 7>>,
      <<"DEC", "ZeroPage", 198, 5>>,
      <<"DEC", "ZeroPageIndexedWithX", 214, 6>>,
      <<"DEX", "Implied", 202, 2>>, <<"DEY", "Implied", 136, 2>>,
      <<"EOR", "Absolute", 77, 4>>,
      <<"EOR", "AbsoluteIndexedWithX", 93, 4>>,
      <<"EOR", "AbsoluteIndexedWithY", 89, 4>>,
      <<"EOR", "IndirectYIndexed", 81, 5>>, <<"EOR", "Immediate", 73, 2>>,
      <<"EOR", "XIndexedIndirect", 65, 6>>, <<"EOR", "ZeroPage", 69, 3>>,
      <<"EOR", "ZeroPageIndexedWithX", 85, 4>>,
      <<"INC", "Absolute", 238, 6>>,
      <<"INC", "AbsoluteIndexedWithX", 254, 7>>,
      <<"INC", "ZeroPage", 230, 5>>,
      <<"INC", "ZeroPageIndexedWithX", 246, 6>>,
      <<"INX", "Implied", 232, 2>>, <<"INY", "Implied", 200, 2>>,
      <<"JMP", "Absolute", 76, 3>>, <<"JMP", "Indirect", 108, 5>>,
      <<"LDA", "Absolute", 173, 4>>,
      <<"LDA", "AbsoluteIndexedWithX", 189, 4>>,
      <<"LDA", "AbsoluteIndexedWithY", 185, 4>>,
      <<"LDA", "IndirectYIndexed", 177, 5>>,
      <<"LDA", "Immediate", 169, 2>>,
      <<"LDA", "XIndexedIndirect", 161, 6>>, <<"LDA", "ZeroPage", 165, 3>>,
      <<"LDA", "ZeroPageIndexedWithX", 181, 4>>,
      <<"LDX", "Absolute", 174, 4>>,
      <<"LDX", "AbsoluteIndexedWithY", 190, 4>>,
      <<"LDX", "Immediate", 162, 2>>, <<"LDX", "ZeroPage", 166, 3>>,
      <<"LDX", "ZeroPageIndexedWithY", 182, 4>>,
      <<"LDY", "Absolute", 172, 4>>,
      <<"LDY", "AbsoluteIndexedWithX", 188, 4>>,
      <<"LDY", "Immediate", 160, 2>>, <<"LDY", "ZeroPage", 164, 3>>,
      <<"LDY", "ZeroPageIndexedWithX", 180, 4>>,
      <<"NOP", "Implied", 234, 2>>, <<"ORA", "Absolute", 13, 4>>,
      <<"ORA", "AbsoluteIndexedWithX", 29, 4>>,
      <<"ORA", "AbsoluteIndexedWithY", 25, 4>>,
      <<"ORA", "IndirectYIndexed", 17, 5>>, <<"ORA", "Immediate", 9, 2>>,
      <<"ORA", "XIndexedIndirect", 1, 6>>, <<"ORA", "ZeroPage", 5, 3>>,
      <<"ORA", "ZeroPageIndexedWithX", 21, 4>>,
      <<"PHA", "Implied", 72, 3>>, <<"PHP", "Implied", 8, 3>>,
      <<"PLA", "Implied", 104, 4>>, <<"PLP", "Implied", 40, 4>>,
      <<"SBC", "Absolute", 237, 4>>,
      <<"SBC", "AbsoluteIndexedWithX", 253, 4>>,
      <<"SBC", "AbsoluteIndexedWithY", 249, 4>>,
      <<"SBC", "IndirectYIndexed", 241, 5>>,
      <<"SBC", "Immediate", 233, 2>>,
      <<"SBC", "XIndexedIndirect", 225, 6>>, <<"SBC", "ZeroPage", 229, 3>>,
      <<"SBC", "ZeroPageIndexedWithX", 245, 4>>,
      <<"STA", "Absolute", 141, 4>>,
      <<"STA", "AbsoluteIndexedWithX", 157, 5>>,
      <<"STA", "AbsoluteIndexedWithY", 153, 5>>,
      <<"STA", "IndirectYIndexed", 145, 6>>,
      <<"STA", "XIndexedIndirect", 129, 6>>, <<"STA", "ZeroPage", 133, 3>>,
      <<"STA", "ZeroPageIndexedWithX", 149, 4>>,
      <<"STX", "Absolute", 142, 4>>, <<"STX", "ZeroPage", 134, 3>>,
      <<"STX", "ZeroPageIndexedWithY", 150, 4>>,
      <<"STY", "Absolute", 140, 4>>, <<"STY", "ZeroPage", 132, 3>>,
      <<"STY", "ZeroPageIndexedWithX", 148, 4>>,
      <<"SEC", "Implied", 56, 2>>, <<"SED", "Implied", 248, 2>>,
      <<"SEI", "Implied", 120, 2>>, <<"TAX", "Implied", 170, 2>>,
      <<"TAY", "Implied", 168, 2>>, <<"TSX", "Implied", 186, 2>>,
      <<"TXA", "Implied", 138, 2>>, <<"TXS", "Implied", 154, 2>>,
      <<"TYA", "Implied", 152, 2>>>>

\* the operand bytes an addressing mode takes
ModeOffset(mode) ==
    CASE mode = "Implied" -> 0
      [] mode \in {"Absolute", "AbsoluteIndexedWithX", "AbsoluteIndexedWithY",
                   "Indirect"} -> 2
      [] OTHER -> 1

ModeOperand(mode, b1, b2) ==
    CASE ModeOffset(mode) = 0 -> 0
      [] ModeOffset(mode) = 1 -> b1
      [] ModeOffset(mode) = 2 -> from_le_bytes(b1, b2)

\* a length that forgets the byte of the opcode
InstructionOffsetOfOperand(mode) == ModeOffset(mode)

\* Instruction::offset: mnemonic.offset() + addressing_mode.offset()
InstructionOffset(mode) == 1 + ModeOffset(mode)

\* for every opcode byte, the position of the first parser of the list that
\* expects it; 0 when none does
FirstMatch ==
    [opcode \in Byte |->
        LET matching == {i \in 1..Len(OperationParser) :
                            OperationParser[i][3] = opcode}
        IN  IF matching = {} THEN 0
            ELSE CHOOSE i \in matching : \A j \in matching : i <= j]

\* a decoder that takes an unexpected first byte for NOP
TryFromBytesOrNop(values) ==
    LET e == OperationParser[IF FirstMatch[values[1]] = 0 THEN FirstMatch[234]
                             ELSE FirstMatch[values[1]]]
    IN  [ok |-> TRUE,
         inst |-> [mnemonic |-> e[1], mode |-> e[2],
                   opnd |-> ModeOperand(e[2], values[2], values[3]),
                   offset |-> InstructionOffset(e[2]),
                   cycles |-> e[4]]]

\* TryFrom<&[u8; 3]> for Operation: the first parser of the list that matches
TryFromBytes(values) ==
    IF FirstMatch[values[1]] = 0
    THEN [ok |-> FALSE, inst |-> [mnemonic |-> "none"]]
    ELSE LET e == OperationParser[FirstMatch[values[1]]]
         IN  [ok |-> TRUE,
              inst |-> [mnemonic |-> e[1], mode |-> e[2],
                        opnd |-> ModeOperand(e[2], values[2], values[3]),
                        offset |-> InstructionOffset(e[2]),
                        cycles |-> e[4]]]

(***************************************************************************)
(* MOS 6502: one step of the processor.                                    *)
(***************************************************************************)
\* the three bytes at PC
Fetch(c, inner) ==
    <<MapRead(inner, c.pc), MapRead(inner, Wrap16(c.pc + 1)),
      MapRead(inner, Wrap16(c.pc + 2))>>

NoInst == [mnemonic |-> "none", mode |-> "none", opnd |-> 0, offset |-> 0,
           cycles |-> 0]

NoMOps == MOpsNew(0, 0, << >>, FALSE)

\* what is kept of a step; `trace` lists the registers before each step taken
\* since the reset and the instruction decoded there
StepRecord(n, c, inner, inst, mops, result, failed) ==
    [op |-> "step", n |-> n, pre |-> c, prebus |-> inner,
     fetched |-> Fetch(c, inner), inst |-> inst, mops |-> mops,
     result |-> result, failed |-> failed,
     trace |-> (IF last.op = "step" THEN last.trace ELSE << >>)
               \o <<[pre |-> c, inst |-> inst]>>]

\* step: fetch, decode, generate on the snapshot, apply the microcode of every
\* cycle in order and stop at the first one that fails
StepWithin(limit) ==
    /\ cpu /= NoCpu
    /\ last.n < limit
    /\ last.result /= "panic"
    /\ \E d \in {TryFromBytes(Fetch(cpu, bus))} :
       IF ~d.ok
       THEN /\ last' = StepRecord(last.n + 1, cpu, bus, NoInst, NoMOps,
                                  "unknown_opcode", 0)
            /\ UNCHANGED <<cpu, bus>>
       ELSE \E mops \in {Generate(cpu, bus, d.inst)} :
            \/ /\ mops.ovf
               /\ last' = StepRecord(last.n + 1, cpu, bus, d.inst, mops,
                                     "panic", 0)
               /\ UNCHANGED <<cpu, bus>>
            \/ \E r \in {ExecuteFrom(cpu, bus,
                                     Flatten(MOpsIntoCycles(mops)), 1)} :
                /\ cpu' = r.cpu
                /\ bus' = r.bus
                /\ last' = StepRecord(last.n + 1, cpu, bus, d.inst, mops,
                                IF r.failed = 0 THEN "ok" ELSE "bus_error",
                                r.failed)
    /\ UNCHANGED <<mapVars, chipVars>>

Step == StepWithin(MaxSteps)

Next6502 == Step

(***************************************************************************)
(* MOS 6502: the machines explored.  RAM at 0x0000..0x0400, ROM at         *)
(* 0xF000..0xFFFF, nothing in between; a program of one instruction is      *)
(* loaded at PC before the first step.                                     *)
(***************************************************************************)
\* bytes already in RAM: a pointer to 0x02FF at 0x04, a pointer into ROM at
\* 0xFF (wrapping to 0x00), and a byte on the stack page
RamImage == (0 :> 240) @@ (4 :> 255) @@ (5 :> 2) @@ (255 :> 16) @@ (511 :> 128)

MachineBus ==
    <<Entry(MkRange(0, 1024), [writable |-> TRUE, bytes |-> RamImage]),
      Entry(MkRange(61440, 65535), NewDevice(FALSE))>>

\* a byte placed in the device that holds the address, writable or not
LoadByte(inner, addr, value) ==
    IF Allocated(inner, addr)
    THEN [inner EXCEPT ![FirstContaining(inner, addr)].dev =
                            DevWrite(@, addr, value)]
    ELSE inner

LoadProgram(inner, pc, values) ==
    LoadByte(LoadByte(LoadByte(inner, pc, values[1]),
                      Wrap16(pc + 1), values[2]),
             Wrap16(pc + 2), values[3])

OperandLo == {4, 255}

OperandHi == {0, 144}

ProgramInputs ==
    {<<0, 0, 0>>, <<255, 0, 0>>, <<76, 2, 0>>, <<189, 255, 255>>}
    \cup {<<OperationParser[i][3], b1, b2>> :
            i \in {j \in 1..Len(OperationParser) :
                        ModeOffset(OperationParser[j][2]) = 2},
            b1 \in OperandLo, b2 \in OperandHi}
    \cup {<<OperationParser[i][3], b1, 0>> :
            i \in {j \in 1..Len(OperationParser) :
                        ModeOffset(OperationParser[j][2]) = 1},
            b1 \in OperandLo}
    \cup {<<OperationParser[i][3], 0, 0>> :
            i \in {j \in 1..Len(OperationParser) :
                        ModeOffset(OperationParser[j][2]) = 0}}

PsInputs ==
    {PsNew(c, f[1], FALSE, FALSE, FALSE, f[3], f[2]) :
        c \in BOOLEAN,
        f \in {<<FALSE, FALSE, FALSE>>, <<TRUE, FALSE, FALSE>>,
               <<FALSE, TRUE, TRUE>>}}

CpuInputs ==
    [acc : {0, 80, 255}, x : {1, 255}, y : {1}, sp : {0, 255},
     ps : PsInputs, pc : {512, 765, 65533}]

Reset == [op |-> "reset", n |-> 0, result |-> "none"]

Init6502 ==
    /\ amap = [live |-> FALSE, inner |-> NewMap]
    /\ mlast = NoCall
    /\ mprev = NoCall
    /\ cpu \in CpuInputs
    /\ \E values \in ProgramInputs : bus = LoadProgram(MachineBus, cpu.pc, values)
    /\ last = Reset
    /\ chip = NoCpu /\ clast = NoCall

\* ADC Immediate over every accumulator, operand and carry
InitAdc ==
    /\ amap = [live |-> FALSE, inner |-> NewMap]
    /\ mlast = NoCall
    /\ mprev = NoCall
    /\ \E a \in Byte, c \in BOOLEAN :
        cpu = [acc |-> a, x |-> 0, y |-> 0, sp |-> 255,
               ps |-> PsNew(c, FALSE, FALSE, FALSE, FALSE, FALSE, FALSE),
               pc |-> 512]
    /\ \E b \in Byte : bus = LoadProgram(MachineBus, 512, <<105, b, 0>>)
    /\ last = Reset
    /\ chip = NoCpu /\ clast = NoCall

SpecAdc == InitAdc /\ [][Next6502]_vars

\* SBC Immediate over every accumulator, operand and carry
InitSbc ==
    /\ amap = [live |-> FALSE, inner |-> NewMap]
    /\ mlast = NoCall
    /\ mprev = NoCall
    /\ \E a \in Byte, c \in BOOLEAN :
        cpu = [acc |-> a, x |-> 0, y |-> 0, sp |-> 255,
               ps |-> PsNew(c, FALSE, FALSE, FALSE, FALSE, FALSE, FALSE),
               pc |-> 512]
    /\ \E b \in Byte : bus = LoadProgram(MachineBus, 512, <<233, b, 0>>)
    /\ last = Reset
    /\ chip = NoCpu /\ clast = NoCall

SpecSbc == InitSbc /\ [][Next6502]_vars

\* a run of bytes placed from an address on
RECURSIVE LoadSequence(_, _, _)
LoadSequence(inner, addr, values) ==
    IF values = << >> THEN inner
    ELSE LoadSequence(LoadByte(inner, addr, Head(values)), Wrap16(addr + 1),
                      Tail(values))

\* all sequences of a given length over a set
RECURSIVE SequencesOf(_, _)
SequencesOf(set, n) ==
    IF n = 0 THEN {<< >>}
    ELSE {Append(q, e) : q \in SequencesOf(set, n - 1), e \in set}

\* n pushes (PHA 0x48, PHP 0x08) followed by n pulls (PLA 0x68, PLP 0x28)
StackPrograms ==
    UNION {{a \o b : a \in SequencesOf({72, 8}, n),
                     b \in SequencesOf({104, 40}, n)} :
           n \in 1..(MaxProgram \div 2)}

\* stack programs at 0x0200 over several stack pointers, the stack page in RAM
InitStack ==
    /\ amap = [live |-> FALSE, inner |-> NewMap]
    /\ mlast = NoCall
    /\ mprev = NoCall
    /\ \E a \in {55, 128}, s \in {0, 1, 128, 255}, p \in PsInputs :
        cpu = [acc |-> a, x |-> 0, y |-> 0, sp |-> s, ps |-> p, pc |-> 512]
    /\ \E values \in StackPrograms : bus = LoadSequence(MachineBus, 512, values)
    /\ last = Reset
    /\ chip = NoCpu /\ clast = NoCall

\* every first byte, with operands that differ in both bytes
InitDecode ==
    /\ amap = [live |-> FALSE, inner |-> NewMap]
    /\ mlast = NoCall
    /\ mprev = NoCall
    /\ cpu = [acc |-> 0, x |-> 1, y |-> 1, sp |-> 255,
              ps |-> PsNew(FALSE, FALSE, FALSE, FALSE, FALSE, FALSE, FALSE),
              pc |-> 512]
    /\ \E b \in Byte, b1 \in OperandLo, b2 \in OperandHi :
          bus = LoadProgram(MachineBus, 512, <<b, b1, b2>>)
    /\ last = Reset
    /\ chip = NoCpu /\ clast = NoCall

SpecDecode == InitDecode /\ [][Next6502]_vars

StepProgram == StepWithin(MaxProgram)

SpecStack == InitStack /\ [][StepProgram]_vars

(***************************************************************************)
(* CHIP-8: microcode and what applying one does.  A general-purpose        *)
(* register is addressed as <<"Gp", n>>, a timer as <<"Timer", name>>.     *)
(***************************************************************************)
Nibble == 0..15

Vf == 15

Gp(n) == <<"Gp", n>>

Timer(name) == <<"Timer", name>>

PushStack(value) == [kind |-> "PushStack", target |-> "Stack", value |-> value]

PopStack(value) == [kind |-> "PopStack", target |-> "Stack", value |-> value]

\* SetDisplayRange::new((0, 0), (x_max, y_max), value)
SetDisplayRange(value) ==
    [kind |-> "SetDisplayRange", target |-> "Display", value |-> value]

read_gp_register(ch, n) == ch.v[n]

Chip8Read8(ch, target) ==
    IF target[1] = "Gp" THEN ch.v[target[2]]
    ELSE IF target[2] = "Sound" THEN ch.st
    ELSE ch.dt

Chip8With8(ch, target, value) ==
    IF target[1] = "Gp" THEN [ch EXCEPT !.v[target[2]] = value]
    ELSE IF target[2] = "Sound" THEN [ch EXCEPT !.st = value]
    ELSE [ch EXCEPT !.dt = value]

Chip8Read16(ch, target) == IF target = "I" THEN ch.i ELSE ch.pc

Chip8With16(ch, target, value) ==
    IF target = "I" THEN [ch EXCEPT !.i = value] ELSE [ch EXCEPT !.pc = value]

Chip8MicrocodeFails(ch, mc) ==
    mc.kind = "WriteMemory" /\ ~MapWriteOk(ch.address_space, mc.target)

Chip8Apply(ch, mc) ==
    CASE mc.kind = "WriteMemory" ->
            [ch EXCEPT !.address_space = MapWrite(@, mc.target, mc.value)]
      [] mc.kind = "Write8bitRegister" -> Chip8With8(ch, mc.target, mc.value)
      [] mc.kind = "Inc8bitRegister" ->
            Chip8With8(ch, mc.target,
                       Wrap8(Chip8Read8(ch, mc.target) + mc.value))
      [] mc.kind = "Dec8bitRegister" ->
            Chip8With8(ch, mc.target,
                       Wrap8(Chip8Read8(ch, mc.target) - mc.value))
      [] mc.kind = "Write16bitRegister" -> Chip8With16(ch, mc.target, mc.value)
      [] mc.kind = "Inc16bitRegister" ->
            Chip8With16(ch, mc.target,
                        Wrap16(Chip8Read16(ch, mc.target) + mc.value))
      [] mc.kind = "Dec16bitRegister" ->
            Chip8With16(ch, mc.target,
                        Wrap16(Chip8Read16(ch, mc.target) - mc.value))
      [] mc.kind = "PushStack" ->
            [ch EXCEPT !.stack = IF ch.sp \in DOMAIN ch.stack
                                 THEN [@ EXCEPT ![ch.sp] = mc.value] ELSE @,
                       !.sp = Wrap8(ch.sp + 1)]
      [] mc.kind = "PopStack" -> [ch EXCEPT !.sp = Wrap8(ch.sp - 1)]
      [] mc.kind = "SetDisplayRange" ->
            [ch EXCEPT !.display = IF mc.value THEN {"lit"} ELSE {}]

RECURSIVE Chip8ExecuteFrom(_, _, _)
Chip8ExecuteFrom(ch, mcs, k) ==
    IF k > Len(mcs)
    THEN [chip |-> ch, failed |-> 0]
    ELSE IF Chip8MicrocodeFails(ch, mcs[k])
    THEN [chip |-> ch, failed |-> k]
    ELSE Chip8ExecuteFrom(Chip8Apply(ch, mcs[k]), mcs, k + 1)

(***************************************************************************)
(* CHIP-8: decoding.  A parser is a name and a mask of four nibbles, Var   *)
(* standing for NibbleMask::Variable.                                      *)
(***************************************************************************)
Var == -1

\* u8::to_be_nibbles of both bytes of the word
ToNibbles(b1, b2) == <<b1 \div 16, b1 % 16, b2 \div 16, b2 % 16>>

nibble_matches_mask(input, expected) == expected = Var \/ expected = input

instruction_matches_nibble_mask(input, expected) ==
    \A k \in 1..4 : nibble_matches_mask(input[k], expected[k])

\* the parsers OpcodeVariantParser tries, in order
OpcodeVariantParser ==
    <<<<"Cls", <<0, 0, 14, 0>>>>, <<"Ret", <<0, 0, 14, 14>>>>,
      <<"Call", <<2, Var, Var, Var>>>>,
      <<"JpNonV0Indexed", <<1, Var, Var, Var>>>>,
      <<"JpV0Indexed", <<11, Var, Var, Var>>>>,
      <<"LdAbsolute", <<10, Var, Var, Var>>>>,
      <<"LdVxVy", <<8, Var, Var, 0>>>>,
      <<"LdSoundTimerDestTx", <<15, Var, 1, 8>>>>,
      <<"LdDelayTimerDestTx", <<15, Var, 1, 5>>>>,
      <<"LdDelayTimerSrcTx", <<15, Var, 0, 7>>>>,
      <<"LdBcd", <<15, Var, 1, 8>>>>, <<"LdK", <<15, Var, 0, 10>>>>,
      <<"AddImmediate", <<7, Var, Var, Var>>>>,
      <<"AddIRegisterIndexed", <<15, Var, 1, 14>>>>,
      <<"AddVxVy", <<8, Var, Var, 4>>>>, <<"Subn", <<8, Var, Var, 7>>>>,
      <<"And", <<8, Var, Var, 2>>>>, <<"Or", <<8, Var, Var, 1>>>>,
      <<"Shl", <<8, Var, Var, 14>>>>, <<"Shr", <<8, Var, Var, 6>>>>,
      <<"Xor", <<8, Var, Var, 3>>>>, <<"SeVxVy", <<5, Var, Var, 0>>>>,
      <<"SeImmediate", <<3, Var, Var, Var>>>>,
      <<"ReadRegistersFromMemory", <<15, Var, 6, 5>>>>,
      <<"StoreRegistersToMemory", <<15, Var, 5, 5>>>>,
      <<"Skp", <<14, Var, 9, 14>>>>, <<"Sknp", <<14, Var, 10, 1>>>>>>

\* the parsers that exist but are not tried by OpcodeVariantParser
UnlistedParsers ==
    <<<<"LdImmediate", <<6, Var, Var, Var>>>>, <<"Sub", <<8, Var, Var, 5>>>>,
      <<"SneImmediate", <<4, Var, Var, Var>>>>,
      <<"SneVxVy", <<9, Var, Var, 0>>>>,
      <<"Rnd", <<12, Var, Var, Var>>>>>>

\* what a parser makes of the nibbles it matched
Chip8Instruction(name, n) ==
    [name |-> name,
     addr |-> n[2] * 256 + n[3] * 16 + n[4],
     register |-> n[2],
     value |-> Wrap8(n[3] * 16) + n[4],
     first |-> n[3],
     second |-> n[2]]

\* one_of(parsers): the first parser whose mask the nibbles match
OneOf(parsers, n) ==
    LET matching == {k \in 1..Len(parsers) :
                        instruction_matches_nibble_mask(n, parsers[k][2])}
    IN  IF matching = {}
        THEN [ok |-> FALSE, inst |-> [name |-> "none"]]
        ELSE [ok |-> TRUE,
              inst |-> Chip8Instruction(
                parsers[CHOOSE k \in matching : \A j \in matching : k <= j][1],
                n)]

(***************************************************************************)
(* CHIP-8: the generators.  Each yields the microcode list and `ovf`, the  *)
(* report of an unchecked `+` that overflowed while generating.            *)
(***************************************************************************)
Chip8MOps(microcode, ovf) == [microcode |-> microcode, ovf |-> ovf]

Wrap12(n) == n % 4096

GenerateCls == Chip8MOps(<<SetDisplayRange(FALSE)>>, FALSE)

GenerateRet(ch) ==
    LET current_sp == ch.sp
        ret_pc == IF current_sp \in DOMAIN ch.stack
                  THEN ch.stack[current_sp] ELSE 0
        inc_adjusted_addr == Wrap16(ret_pc - 2)
    IN  Chip8MOps(<<PopStack(ret_pc),
                    Write16bitRegister("ProgramCounter", inc_adjusted_addr)>>,
                  FALSE)

\* the jumps writing their target as it is, without the 2 the stepper adds
GenerateJpUncompensated(ch, inst) ==
    IF inst.name = "JpNonV0Indexed"
    THEN Chip8MOps(<<Write16bitRegister("ProgramCounter", inst.addr)>>, FALSE)
    ELSE Chip8MOps(<<Write16bitRegister("ProgramCounter",
                        Wrap12(inst.addr + read_gp_register(ch, 0)))>>, FALSE)

\* Jp<NonV0Indexed, Absolute> and Jp<V0Indexed, Absolute>
GenerateJp(ch, inst) ==
    IF inst.name = "JpNonV0Indexed"
    THEN Chip8MOps(<<Write16bitRegister("ProgramCounter",
                                        Wrap16(inst.addr - 2))>>, FALSE)
    ELSE LET v0_val == read_gp_register(ch, 0)
             jmp_addr == Wrap12(inst.addr + v0_val)
         IN  Chip8MOps(<<Write16bitRegister("ProgramCounter",
                                            Wrap16(jmp_addr - 2))>>, FALSE)

\* Ld<Absolute>, Ld<Immediate>, Ld<VxVy> and the three timer loads
GenerateLd(ch, inst) ==
    CASE inst.name = "LdAbsolute" ->
            Chip8MOps(<<Write16bitRegister("I", inst.addr)>>, FALSE)
      [] inst.name = "LdImmediate" ->
            Chip8MOps(<<Write8bitRegister(Gp(inst.register), inst.value)>>,
                      FALSE)
      [] inst.name = "LdVxVy" ->
            Chip8MOps(<<Write8bitRegister(Gp(inst.second),
                            read_gp_register(ch, inst.first))>>, FALSE)
      [] inst.name = "LdSoundTimerDestTx" ->
            Chip8MOps(<<Write8bitRegister(Timer("Sound"),
                            read_gp_register(ch, inst.register))>>, FALSE)
      [] inst.name = "LdDelayTimerDestTx" ->
            Chip8MOps(<<Write8bitRegister(Timer("Delay"),
                            read_gp_register(ch, inst.register))>>, FALSE)
      [] inst.name = "LdDelayTimerSrcTx" ->
            Chip8MOps(<<Write8bitRegister(Gp(inst.register), ch.dt)>>, FALSE)

\* the decimal digits with the tens taken from the whole value
GenerateLdBcdTensOfValue(ch, inst) ==
    LET src_val == read_gp_register(ch, inst.register)
    IN  Chip8MOps(<<WriteMemory(ch.i, src_val \div 100),
                    WriteMemory(Wrap16(ch.i + 1), src_val \div 10),
                    WriteMemory(Wrap16(ch.i + 2), (src_val % 100) % 10)>>,
                  ch.i + 2 > 65535)

GenerateLdBcd(ch, inst) ==
    LET src_val == read_gp_register(ch, inst.register)
        hundreds == src_val \div 100
        tens == (src_val % 100) \div 10
        ones == (src_val % 100) % 10
    IN  Chip8MOps(<<WriteMemory(ch.i, hundreds),
                    WriteMemory(Wrap16(ch.i + 1), tens),
                    WriteMemory(Wrap16(ch.i + 2), ones)>>,
                  ch.i + 2 > 65535)

\* the pending key is read from cpu.interrupt; NoKey stands for None
NoKey == -1

\* LD K that emits nothing while no key is pending
GenerateLdKFallingThrough(ch, inst) ==
    IF ch.interrupt /= NoKey
    THEN Chip8MOps(<<Write8bitRegister(Gp(inst.register), ch.interrupt)>>,
                   FALSE)
    ELSE Chip8MOps(<< >>, FALSE)

GenerateLdK(ch, inst) ==
    IF ch.interrupt /= NoKey
    THEN Chip8MOps(<<Write8bitRegister(Gp(inst.register), ch.interrupt)>>,
                   FALSE)
    ELSE Chip8MOps(<<Dec16bitRegister("ProgramCounter", 2)>>, FALSE)

GenerateReadRegistersFromMemory(ch, inst) ==
    Chip8MOps([reg1 \in 1..(inst.register + 1) |->
                    Write8bitRegister(Gp(reg1 - 1),
                        MapRead(ch.address_space, Wrap16(ch.i + reg1 - 1)))],
              ch.i + inst.register > 65535)

\* the store stopping one register short of Vx
GenerateStoreRegistersBelow(ch, inst) ==
    Chip8MOps([reg1 \in 1..inst.register |->
                    WriteMemory(Wrap16(ch.i + reg1 - 1),
                                read_gp_register(ch, reg1 - 1))],
              ch.i + inst.register > 65535)

GenerateStoreRegistersToMemory(ch, inst) ==
    Chip8MOps([reg1 \in 1..(inst.register + 1) |->
                    WriteMemory(Wrap16(ch.i + reg1 - 1),
                                read_gp_register(ch, reg1 - 1))],
              ch.i + inst.register > 65535)

GenerateCall(ch, inst) ==
    LET current_pc == ch.pc
        inc_adjusted_addr == Wrap16(inst.addr - 2)
    IN  Chip8MOps(<<PushStack(current_pc),
                    Write16bitRegister("ProgramCounter", inc_adjusted_addr)>>,
                  FALSE)

\* the additions with the flag of Add<VxVy> written before the sum
GenerateAddFlagFirst(ch, inst) ==
    CASE inst.name = "AddImmediate" ->
            Chip8MOps(<<Inc8bitRegister(Gp(inst.register), inst.value)>>,
                      FALSE)
      [] inst.name = "AddIRegisterIndexed" ->
            Chip8MOps(<<Inc16bitRegister("I",
                            read_gp_register(ch, inst.register))>>, FALSE)
      [] inst.name = "AddVxVy" ->
            LET src_val == read_gp_register(ch, inst.first)
                dest_val == read_gp_register(ch, inst.second)
                result == Wrap8(dest_val + src_val)
                flag_val == IF dest_val + src_val > 255 THEN 1 ELSE 0
            IN  Chip8MOps(<<Write8bitRegister(Gp(Vf), flag_val),
                            Write8bitRegister(Gp(inst.second), result)>>,
                          FALSE)

\* Add<Immediate>, Add<IRegisterIndexed>, Add<VxVy>
GenerateAdd(ch, inst) ==
    CASE inst.name = "AddImmediate" ->
            Chip8MOps(<<Inc8bitRegister(Gp(inst.register), inst.value)>>,
                      FALSE)
      [] inst.name = "AddIRegisterIndexed" ->
            Chip8MOps(<<Inc16bitRegister("I",
                            read_gp_register(ch, inst.register))>>, FALSE)
      [] inst.name = "AddVxVy" ->
            LET src_val == read_gp_register(ch, inst.first)
                dest_val == read_gp_register(ch, inst.second)
                result == Wrap8(dest_val + src_val)
                flag_val == IF dest_val + src_val > 255 THEN 1 ELSE 0
            IN  Chip8MOps(<<Write8bitRegister(Gp(inst.second), result),
                            Write8bitRegister(Gp(Vf), flag_val)>>, FALSE)

\* Sub<VxVy> and Subn<VxVy>
GenerateSub(ch, inst) ==
    LET src_val == read_gp_register(ch, inst.first)
        dest_val == read_gp_register(ch, inst.second)
        minuend == IF inst.name = "Sub" THEN dest_val ELSE src_val
        subtrahend == IF inst.name = "Sub" THEN src_val ELSE dest_val
        result == Wrap8(minuend - subtrahend)
        flag_val == IF minuend < subtrahend THEN 0 ELSE 1
    IN  Chip8MOps(<<Write8bitRegister(Gp(inst.second), result),
                    Write8bitRegister(Gp(Vf), flag_val)>>, FALSE)

\* And<VxVy>, Or<VxVy>, Xor<VxVy>
GenerateBitwise(ch, inst) ==
    LET src_val == read_gp_register(ch, inst.first)
        dest_val == read_gp_register(ch, inst.second)
        result == CASE inst.name = "And" -> BitAnd(dest_val, src_val)
                    [] inst.name = "Or" -> BitOr(dest_val, src_val)
                    [] inst.name = "Xor" -> BitXor(dest_val, src_val)
    IN  Chip8MOps(<<Write8bitRegister(Gp(inst.second), result)>>, FALSE)

\* Skp and Sknp both skipping on the pressed key
GenerateSkipKeyBothOnPress(ch, inst) ==
    IF ch.interrupt /= NoKey /\ ch.interrupt = read_gp_register(ch, inst.register)
    THEN Chip8MOps(<<Inc16bitRegister("ProgramCounter", 2)>>, FALSE)
    ELSE Chip8MOps(<< >>, FALSE)

\* Skp and Sknp
GenerateSkipKey(ch, inst) ==
    LET reg_val == read_gp_register(ch, inst.register)
        pressed == ch.interrupt /= NoKey /\ ch.interrupt = reg_val
    IN  IF pressed = (inst.name = "Skp")
        THEN Chip8MOps(<<Inc16bitRegister("ProgramCounter", 2)>>, FALSE)
        ELSE Chip8MOps(<< >>, FALSE)

\* the shifts taking the value of Vy
GenerateShiftOfVy(ch, inst) ==
    LET src_val == read_gp_register(ch, inst.first)
        flags == IF inst.name = "Shl" THEN src_val \div 128 ELSE src_val % 2
        result == IF inst.name = "Shl" THEN Wrap8(src_val * 2)
                  ELSE src_val \div 2
    IN  Chip8MOps(<<Write8bitRegister(Gp(Vf), flags),
                    Write8bitRegister(Gp(inst.second), result)>>, FALSE)

\* Shl<VxVy> and Shr<VxVy>
GenerateShift(ch, inst) ==
    LET dest_val == read_gp_register(ch, inst.second)
        flags == IF inst.name = "Shl" THEN dest_val \div 128 ELSE dest_val % 2
        result == IF inst.name = "Shl" THEN Wrap8(dest_val * 2)
                  ELSE dest_val \div 2
    IN  Chip8MOps(<<Write8bitRegister(Gp(Vf), flags),
                    Write8bitRegister(Gp(inst.second), result)>>, FALSE)

\* Se<Immediate>, Se<VxVy>, Sne<Immediate>, Sne<VxVy>
GenerateSkipCompare(ch, inst) ==
    LET equal == IF inst.name \in {"SeImmediate", "SneImmediate"}
                 THEN read_gp_register(ch, inst.register) = inst.value
                 ELSE read_gp_register(ch, inst.first)
                        = read_gp_register(ch, inst.second)
    IN  IF equal = (inst.name \in {"SeImmediate", "SeVxVy"})
        THEN Chip8MOps(<<Inc16bitRegister("ProgramCounter", 2)>>, FALSE)
        ELSE Chip8MOps(<< >>, FALSE)

\* Rnd<Immediate>: rand is the byte cpu.rng.random() hands out
GenerateRnd(inst, rand) ==
    Chip8MOps(<<Write8bitRegister(Gp(inst.register),
                                  BitAnd(rand, inst.value))>>, FALSE)

Chip8Generate(ch, inst, rand) ==
    CASE inst.name = "Cls" -> GenerateCls
      [] inst.name = "Ret" -> GenerateRet(ch)
      [] inst.name \in {"JpNonV0Indexed", "JpV0Indexed"} -> GenerateJp(ch, inst)
      [] inst.name \in {"LdAbsolute", "LdImmediate", "LdVxVy",
                        "LdSoundTimerDestTx", "LdDelayTimerDestTx",
                        "LdDelayTimerSrcTx"} -> GenerateLd(ch, inst)
      [] inst.name = "LdBcd" -> GenerateLdBcd(ch, inst)
      [] inst.name = "LdK" -> GenerateLdK(ch, inst)
      [] inst.name = "ReadRegistersFromMemory" ->
            GenerateReadRegistersFromMemory(ch, inst)
      [] inst.name = "StoreRegistersToMemory" ->
            GenerateStoreRegistersToMemory(ch, inst)
      [] inst.name = "Call" -> GenerateCall(ch, inst)
      [] inst.name \in {"AddImmediate", "AddIRegisterIndexed", "AddVxVy"} ->
            GenerateAdd(ch, inst)
      [] inst.name \in {"Sub", "Subn"} -> GenerateSub(ch, inst)
      [] inst.name \in {"And", "Or", "Xor"} -> GenerateBitwise(ch, inst)
      [] inst.name \in {"Skp", "Sknp"} -> GenerateSkipKey(ch, inst)
      [] inst.name \in {"Shl", "Shr"} -> GenerateShift(ch, inst)
      [] inst.name \in {"SeImmediate", "SeVxVy", "SneImmediate", "SneVxVy"} ->
            GenerateSkipCompare(ch, inst)
      [] inst.name = "Rnd" -> GenerateRnd(inst, rand)

(***************************************************************************)
(* CHIP-8: one step of the interpreter.                                    *)
(***************************************************************************)
\* the nibbles of the big-endian word at PC
Chip8Fetch(ch) ==
    ToNibbles(MapRead(ch.address_space, ch.pc),
              MapRead(ch.address_space, Wrap16(ch.pc + 1)))

NoChip8MOps == Chip8MOps(<< >>, FALSE)

Chip8StepRecord(n, ch, inst, mops, result, failed) ==
    [op |-> "step", n |-> n, pre |-> ch, fetched |-> Chip8Fetch(ch),
     inst |-> inst, mops |-> mops, result |-> result, failed |-> failed,
     trace |-> (IF clast.op = "step" THEN clast.trace ELSE << >>)
               \o <<[pre |-> ch, inst |-> inst]>>]

\* step: fetch, decode with OpcodeVariantParser, generate on the snapshot,
\* apply the list and then the advance of PC by 2, stop at the first failure
StepChip8Within(limit) ==
    /\ chip /= NoCpu
    /\ clast.n < limit
    /\ clast.result /= "panic"
    /\ \E d \in {OneOf(OpcodeVariantParser, Chip8Fetch(chip))} :
       IF ~d.ok
       THEN /\ clast' = Chip8StepRecord(clast.n + 1, chip, d.inst, NoChip8MOps,
                                        "unknown_opcode", 0)
            /\ UNCHANGED chip
       ELSE \E mops \in {Chip8Generate(chip, d.inst, 0)} :
            \/ /\ mops.ovf
               /\ clast' = Chip8StepRecord(clast.n + 1, chip, d.inst, mops,
                                           "panic", 0)
               /\ UNCHANGED chip
            \/ \E r \in {Chip8ExecuteFrom(chip,
                            Append(mops.microcode,
                                   Inc16bitRegister("ProgramCounter", 2)), 1)} :
                /\ chip' = r.chip
                /\ clast' = Chip8StepRecord(clast.n + 1, chip, d.inst, mops,
                                IF r.failed = 0 THEN "ok" ELSE "bus_error",
                                r.failed)
    /\ UNCHANGED <<mapVars, cpuVars>>

StepChip8 == StepChip8Within(MaxSteps)

(***************************************************************************)
(* generate called on one decoded instruction and one processor, which it  *)
(* borrows immutably; up to MaxCalls calls in a row, their results kept in *)
(* order.                                                                  *)
(***************************************************************************)
CallGenerate ==
    /\ cpu /= NoCpu
    /\ \/ /\ last.op = "reset"
          /\ \E d \in {TryFromBytes(Fetch(cpu, bus))} :
                /\ d.ok
                /\ last' = [op |-> "generate", n |-> MaxSteps,
                            result |-> "none", pre |-> cpu, prebus |-> bus,
                            inst |-> d.inst,
                            lists |-> <<Generate(cpu, bus, d.inst)>>]
       \/ /\ last.op = "generate"
          /\ Len(last.lists) < MaxCalls
          /\ last' = [last EXCEPT
                        !.lists = Append(@, Generate(cpu, bus, last.inst))]
    /\ UNCHANGED <<cpu, bus, mapVars, chipVars>>

\* bytes the random source may hand out
RandInputs == {15, 255}

\* every instruction has a parser of its own, in OpcodeVariantParser or not;
\* draws are the bytes cpu.rng.random() handed out, in order
CallGenerateChip8 ==
    /\ chip /= NoCpu
    /\ \/ /\ clast.op = "reset"
          /\ \E p \in {OpcodeVariantParser \o UnlistedParsers} :
             \E k \in 1..Len(p) :
                /\ instruction_matches_nibble_mask(Chip8Fetch(chip), p[k][2])
                /\ \E inst \in {Chip8Instruction(p[k][1], Chip8Fetch(chip))} :
                   \E rand \in (IF inst.name = "Rnd" THEN RandInputs ELSE {0}) :
                    clast' = [op |-> "generate", n |-> MaxSteps,
                              result |-> "none", pre |-> chip, inst |-> inst,
                              draws |-> IF inst.name = "Rnd" THEN <<rand>>
                                        ELSE << >>,
                              lists |-> <<Chip8Generate(chip, inst, rand)>>]
       \/ /\ clast.op = "generate"
          /\ Len(clast.lists) < MaxCalls
          /\ \E rand \in (IF clast.inst.name = "Rnd" THEN RandInputs ELSE {0}) :
                clast' = [clast EXCEPT
                    !.draws = IF clast.inst.name = "Rnd" THEN Append(@, rand)
                              ELSE @,
                    !.lists = Append(@, Chip8Generate(chip, clast.inst, rand))]
    /\ UNCHANGED <<chip, mapVars, cpuVars>>

(***************************************************************************)
(* CHIP-8: the machines explored.  RAM at 0x000..0xFFF (the last address   *)
(* excluded), one instruction word loaded at PC before the first step.     *)
(***************************************************************************)
Chip8Bus == <<Entry(MkRange(0, 4095), NewDevice(TRUE))>>

WordInputs ==
    {<<n1, n2, n3, n4>> : n1 \in Nibble, n2 \in {0, 1},
                          n3 \in {0, 1, 3, 5, 6, 9, 10, 14},
                          n4 \in {0, 1, 2, 3, 4, 5, 6, 7, 8, 10, 14}}

Chip8Inputs ==
    {[v |-> [n \in Nibble |-> IF n = 0 THEN v0 ELSE IF n = 1 THEN v1 ELSE 0],
      i |-> i, pc |-> pc, sp |-> 1,
      stack |-> [k \in Nibble |-> IF k = 0 THEN 592 ELSE IF k = 1 THEN 608
                                   ELSE 0],
      dt |-> 9, st |-> 0, interrupt |-> key, display |-> {"lit"},
      address_space |->
        LoadByte(LoadByte(Chip8Bus, pc, w[1] * 16 + w[2]),
                 pc + 1, w[3] * 16 + w[4])] :
        v0 \in {7, 255}, v1 \in {1, 200}, i \in {768, 4094},
        pc \in {512, 4093}, key \in {NoKey, 7}, w \in WordInputs}

InitChip8 ==
    /\ amap = [live |-> FALSE, inner |-> NewMap]
    /\ mlast = NoCall
    /\ mprev = NoCall
    /\ cpu = NoCpu /\ bus = NewMap /\ last = NoCall
    /\ chip \in Chip8Inputs
    /\ clast = Reset

\* the memories the longer runs start from: one instruction word at 0x200,
\* or CALL 0x300 at 0x200, CALL 0x400 and RET at 0x300, RET at 0x400 and RET at
\* 0x500, or LD [I],Vx followed by LD Vx,[I] at 0x200 for x = 1 and x = F
RunWords ==
    {<<240, 10>>, <<241, 10>>, <<128, 20>>, <<128, 4>>, <<143, 20>>,
     <<129, 244>>, <<143, 244>>, <<128, 21>>, <<128, 23>>, <<143, 23>>,
     <<129, 247>>, <<191, 255>>, <<241, 101>>}

RunImages ==
    {LoadSequence(Chip8Bus, 512, w) : w \in RunWords}
    \cup {LoadSequence(LoadSequence(LoadSequence(LoadSequence(Chip8Bus,
                512, <<35, 0>>), 768, <<36, 0, 0, 238>>), 1024, <<0, 238>>),
                1280, <<0, 238>>)}
    \cup {LoadSequence(Chip8Bus, 512, <<240 + x, 85, 240 + x, 101>>) :
            x \in {1, 15}}

\* no key pending at first; the stack slots hold 0x500 before anything is
\* pushed
InitRun ==
    /\ amap = [live |-> FALSE, inner |-> NewMap]
    /\ mlast = NoCall
    /\ mprev = NoCall
    /\ cpu = NoCpu /\ bus = NewMap /\ last = NoCall
    /\ \E v0 \in {3, 255}, v1 \in {1, 200}, s \in {0, 3, 13},
          image \in RunImages :
          chip = [v |-> [n \in Nibble |-> IF n = 0 THEN v0
                                           ELSE IF n = 1 THEN v1
                                           ELSE IF n = Vf THEN 100 ELSE 0],
                  i |-> 768, pc |-> 512, sp |-> s,
                  stack |-> [k \in Nibble |-> 1280],
                  dt |-> 9, st |-> 0, interrupt |-> NoKey,
                  display |-> {"lit"}, address_space |-> image]
    /\ clast = Reset

StepChip8Program == StepChip8Within(MaxProgram)

\* the keypress source sets the pending key between two steps
PressKey ==
    /\ chip /= NoCpu
    /\ chip.interrupt = NoKey
    /\ clast.n < MaxProgram
    /\ \E key \in {7, 15} : chip' = [chip EXCEPT !.interrupt = key]
    /\ UNCHANGED <<clast, mapVars, cpuVars>>

NextRun == StepChip8Program \/ PressKey

SpecRun == InitRun /\ [][NextRun]_vars

\* the machines of the claims about every byte: V0 and VF hold any byte, and
\* the word at 0x200 is Fx18, a shift of V0, VF or V1, or a shift of V1 whose
\* y is 0
ByteWords ==
    {<<240, 24>>, <<241, 24>>, <<128, 22>>, <<128, 30>>, <<143, 22>>,
     <<143, 30>>, <<129, 6>>, <<129, 14>>}

InitBytes ==
    /\ amap = [live |-> FALSE, inner |-> NewMap]
    /\ mlast = NoCall
    /\ mprev = NoCall
    /\ cpu = NoCpu /\ bus = NewMap /\ last = NoCall
    /\ \E v0 \in Byte, v1 \in {1, 200}, i \in {768, 4094}, w \in ByteWords :
          chip = [v |-> [n \in Nibble |-> IF n \in {0, Vf} THEN v0
                                           ELSE IF n = 1 THEN v1 ELSE 0],
                  i |-> i, pc |-> 512, sp |-> 0,
                  stack |-> [k \in Nibble |-> 0],
                  dt |-> 9, st |-> 0, interrupt |-> NoKey,
                  display |-> {"lit"},
                  address_space |-> LoadSequence(Chip8Bus, 512, w)]
    /\ clast = Reset

NextBytes == StepChip8 \/ CallGenerateChip8

SpecBytes == InitBytes /\ [][NextBytes]_vars

InitCpus == Init6502 \/ InitChip8

NextCpus == Step \/ CallGenerate \/ StepChip8 \/ CallGenerateChip8

SpecCpus == InitCpus /\ [][NextCpus]_vars

(***************************************************************************)
(* Claims about a step and about generate.                                 *)
(***************************************************************************)
\* the first bytes the 6502 opcode table holds
OpcodeTable == {OperationParser[i][3] : i \in 1..Len(OperationParser)}

\* the CHIP-8 word matches the pattern of some parser the step tries
MatchesAPattern(n) ==
    \E k \in 1..Len(OpcodeVariantParser) :
        \A j \in 1..4 : OpcodeVariantParser[k][2][j] \in {Var, n[j]}

\* C5: a step whose bytes fail to decode (6502: first byte not in the opcode
\* table; CHIP-8: word matching no pattern) returns the unknown-opcode error
\* and leaves every register, flag, the stack and memory as they were, PC
\* included.
C5_FailedDecodeLeavesState ==
    /\ (last.op = "step" /\ last.fetched[1] \notin OpcodeTable) =>
            /\ last.result = "unknown_opcode"
            /\ cpu = last.pre
            /\ bus = last.prebus
    /\ (clast.op = "step" /\ ~MatchesAPattern(clast.fetched)) =>
            /\ clast.result = "unknown_opcode"
            /\ chip = clast.pre

C5_Witness ==
    /\ last.op = "step"
    /\ last.fetched[1] = 255
    /\ last.result = "unknown_opcode"
    /\ cpu.pc = 65533

\* the state after the first n microcodes of the list, none of them failing
RECURSIVE AfterFirst(_, _, _, _)
AfterFirst(c, inner, mcs, n) ==
    IF n = 0
    THEN [cpu |-> c, bus |-> inner]
    ELSE LET p == AfterFirst(c, inner, mcs, n - 1)
         IN  [cpu |-> ApplyToCpu(p.cpu, mcs[n]),
              bus |-> ApplyToBus(p.bus, mcs[n])]

RECURSIVE Chip8AfterFirst(_, _, _)
Chip8AfterFirst(ch, mcs, n) ==
    IF n = 0 THEN ch ELSE Chip8Apply(Chip8AfterFirst(ch, mcs, n - 1), mcs[n])

\* the positions of the list that write to an address no writable device holds
FailingWrites(inner, mcs) ==
    {k \in 1..Len(mcs) : /\ mcs[k].kind = "WriteMemory"
                         /\ ~InWritableRange(inner, mcs[k].target)}

\* the list a 6502 step applies, the advance of PC last
StepList == Flatten(MOpsIntoCycles(last.mops))

Chip8StepList ==
    Append(clast.mops.microcode, Inc16bitRegister("ProgramCounter", 2))

\* C6: when the WriteMemory at position k of a step's list fails, the effects
\* of the microcodes before k are visible, k and every later one, the advance
\* of PC included, are not applied, and the step reports a bus error; a 6502
\* DEC or INC of an unallocated address ends with Negative and Zero updated
\* and PC unchanged.
C6_FailedWriteStopsStep ==
    /\ (last.op = "step" /\ last.result \in {"ok", "bus_error"}) =>
        \A k \in FailingWrites(last.prebus, StepList) :
            (\A j \in FailingWrites(last.prebus, StepList) : k <= j) =>
                /\ last.result = "bus_error"
                /\ cpu = AfterFirst(last.pre, last.prebus, StepList, k - 1).cpu
                /\ bus = AfterFirst(last.pre, last.prebus, StepList, k - 1).bus
                /\ cpu.pc = last.pre.pc
    /\ (/\ last.op = "step"
        /\ last.result \in {"ok", "bus_error"}
        /\ last.inst.mnemonic \in {"DEC", "INC"}
        /\ FailingWrites(last.prebus, StepList) /= {}) =>
        \E k \in FailingWrites(last.prebus, StepList) :
            \E written \in {StepList[k].value} :
                /\ last.result = "bus_error"
                /\ cpu.ps.negative = (written >= 128)
                /\ cpu.ps.zero = (written = 0)
                /\ cpu.pc = last.pre.pc
                /\ bus = last.prebus
    /\ (clast.op = "step" /\ clast.result \in {"ok", "bus_error"}) =>
        \A k \in FailingWrites(clast.pre.address_space, Chip8StepList) :
            (\A j \in FailingWrites(clast.pre.address_space, Chip8StepList) :
                k <= j) =>
                /\ clast.result = "bus_error"
                /\ chip = Chip8AfterFirst(clast.pre, Chip8StepList, k - 1)
                /\ chip.pc = clast.pre.pc

\* DEC of the unallocated 0x9004: the flags of 0 - 1 are set, PC stays
C6_Witness ==
    /\ last.op = "step"
    /\ last.inst.mnemonic = "DEC"
    /\ last.result = "bus_error"
    /\ last.failed = 3
    /\ ~InSomeRange(last.prebus, StepList[3].target)
    /\ cpu.ps.negative /\ ~last.pre.ps.negative
    /\ cpu.pc = last.pre.pc

Branches == {"BCC", "BCS", "BEQ", "BMI", "BNE", "BPL", "BVC", "BVS"}

\* the CHIP-8 instruction skips the next one in the state it is run in
SkipTaken(ch, inst) ==
    CASE inst.name = "SeImmediate" -> ch.v[inst.register] = inst.value
      [] inst.name = "SeVxVy" -> ch.v[inst.second] = ch.v[inst.first]
      [] inst.name = "SneImmediate" -> ch.v[inst.register] /= inst.value
      [] inst.name = "SneVxVy" -> ch.v[inst.second] /= ch.v[inst.first]
      [] inst.name = "Skp" -> ch.interrupt = ch.v[inst.register]
      [] inst.name = "Sknp" -> ch.interrupt /= ch.v[inst.register]
      [] OTHER -> FALSE

\* C7: after every successfully executed instruction that is not a jump, a
\* call, a return, a taken branch, a skip or a blocked LD K, PC is PC before
\* plus the byte length of the instruction modulo the width of PC: the
\* length 1, 2 or 3 the 6502 decoder reports, and 2 for CHIP-8.
C7_PcAdvancesByLength ==
    /\ (/\ last.op = "step"
        /\ last.result = "ok"
        /\ last.inst.mnemonic /= "JMP"
        /\ ~(/\ last.inst.mnemonic \in Branches
             /\ BranchCondition(last.pre, last.inst.mnemonic))) =>
            /\ last.inst.offset \in {1, 2, 3}
            /\ cpu.pc = (last.pre.pc + last.inst.offset) % 65536
    /\ (/\ clast.op = "step"
        /\ clast.result = "ok"
        /\ clast.inst.name \notin {"JpNonV0Indexed", "JpV0Indexed", "Call",
                                   "Ret"}
        /\ ~SkipTaken(clast.pre, clast.inst)
        /\ ~(clast.inst.name = "LdK" /\ clast.pre.interrupt = NoKey)) =>
            chip.pc = (clast.pre.pc + 2) % 65536

\* a three-byte instruction at 0xFFFD: PC wraps to 0
C7_Witness ==
    /\ last.op = "step"
    /\ last.result = "ok"
    /\ last.inst.offset = 3
    /\ last.inst.mnemonic /= "JMP"
    /\ last.pre.pc = 65533
    /\ cpu.pc = 0

AdcImmediateRan ==
    /\ last.op = "step"
    /\ last.result = "ok"
    /\ last.inst.mnemonic = "ADC"
    /\ last.inst.mode = "Immediate"

\* a + b + c of the step: accumulator, operand byte and carry before it
AdcSum == last.pre.acc + last.fetched[2] + (IF last.pre.ps.carry THEN 1 ELSE 0)

\* C9: ADC sets Overflow to ((a ^ result) & (b ^ result) & 0x80) /= 0 with
\* result = (a + b + c) & 0xFF; a = 0x50, b = 0x50, c = 0 gives V = 1.
C9_AdcOverflowLaw ==
    AdcImmediateRan =>
        cpu.ps.overflow =
            (BitAnd(BitAnd(BitXor(last.pre.acc, AdcSum % 256),
                           BitXor(last.fetched[2], AdcSum % 256)), 128) /= 0)

\* C10: ADC writes (a + b + c) mod 256 to ACC, sets Carry iff a + b + c is at
\* least 256, and sets Zero and Negative from the value written.
C10_AdcSumAndCarry ==
    AdcImmediateRan =>
        /\ cpu.acc = AdcSum % 256
        /\ cpu.ps.carry = (AdcSum >= 256)
        /\ cpu.ps.zero = (cpu.acc = 0)
        /\ cpu.ps.negative = (cpu.acc >= 128)

(***************************************************************************)
(* Claims about SBC.                                                       *)
(***************************************************************************)
\* the step ran SBC #b to the end
SbcImmediateRan ==
    /\ last.op = "step"
    /\ last.result = "ok"
    /\ last.inst.mnemonic = "SBC"
    /\ last.inst.mode = "Immediate"

\* a - b - (1 - c) of the step: accumulator, operand byte and carry before it
SbcDifference ==
    last.pre.acc - last.fetched[2] - (IF last.pre.ps.carry THEN 0 ELSE 1)

\* C11: SBC writes (a - b - (1 - c)) mod 256 to ACC and sets Carry iff the
\* unsigned subtraction a - b - (1 - c) does not underflow, b = 0 with c = 1
\* included.
C11_SbcDifferenceAndCarry ==
    SbcImmediateRan =>
        /\ cpu.acc = SbcDifference % 256
        /\ cpu.ps.carry = (SbcDifference >= 0)

\* C12: SBC sets Overflow iff sign(a) = sign(~b) and sign(result) /= sign(a),
\* result being the byte SBC writes to ACC.
C12_SbcOverflowLaw ==
    SbcImmediateRan =>
        cpu.ps.overflow =
            (/\ (last.pre.acc >= 128) = ((255 - last.fetched[2]) >= 128)
             /\ (cpu.acc >= 128) /= (last.pre.acc >= 128))

(***************************************************************************)
(* Claims about the compare instructions.                                  *)
(***************************************************************************)
\* the register CMP, CPX or CPY compares, as it was before the step
CompareLhs ==
    CASE last.inst.mnemonic = "CMP" -> last.pre.acc
      [] last.inst.mnemonic = "CPX" -> last.pre.x
      [] last.inst.mnemonic = "CPY" -> last.pre.y

\* C13: CMP, CPX and CPY set Carry iff lhs >= rhs as unsigned bytes, Zero iff
\* lhs = rhs, Negative to bit 7 of (lhs - rhs) mod 256, and leave ACC, X and
\* Y unchanged.
C13_CompareFlags ==
    (/\ last.op = "step"
     /\ last.result = "ok"
     /\ last.inst.mnemonic \in {"CMP", "CPX", "CPY"}
     /\ last.inst.mode = "Immediate") =>
        /\ cpu.ps.carry = (CompareLhs >= last.fetched[2])
        /\ cpu.ps.zero = (CompareLhs = last.fetched[2])
        /\ cpu.ps.negative = (((CompareLhs - last.fetched[2]) % 256) >= 128)
        /\ cpu.acc = last.pre.acc
        /\ cpu.x = last.pre.x
        /\ cpu.y = last.pre.y

(***************************************************************************)
(* Claims about Zero and Negative.                                         *)
(***************************************************************************)
ToAccumulator == {"LDA", "TXA", "TYA", "PLA", "AND", "ORA", "EOR"}

ToX == {"LDX", "TAX", "TSX", "INX", "DEX"}

ToY == {"LDY", "TAY", "INY", "DEY"}

ToMemory == {"INC", "DEC"}

\* the value the instruction of the step left in its destination
DestinationValue ==
    CASE last.inst.mnemonic \in ToAccumulator -> cpu.acc
      [] last.inst.mnemonic \in ToX -> cpu.x
      [] last.inst.mnemonic \in ToY -> cpu.y
      [] last.inst.mnemonic \in ToMemory ->
            MapRead(bus, StepList[CHOOSE k \in 1..Len(StepList) :
                                    StepList[k].kind = "WriteMemory"].target)

\* C14: after every load, transfer, increment, decrement, logic or pull
\* instruction that sets flags, Zero is (value written to the destination
\* = 0) and Negative is bit 7 of that value; for DEY the flags describe the
\* new Y.
C14_ZeroNegativeOfResult ==
    (/\ last.op = "step"
     /\ last.result = "ok"
     /\ last.inst.mnemonic \in
            ToAccumulator \cup ToX \cup ToY \cup ToMemory) =>
        /\ cpu.ps.zero = (DestinationValue = 0)
        /\ cpu.ps.negative = (DestinationValue >= 128)

(***************************************************************************)
(* Claims about the branches.                                              *)
(***************************************************************************)
\* the step ran one of the eight branches to the end
BranchRan ==
    /\ last.op = "step"
    /\ last.result = "ok"
    /\ last.inst.mnemonic \in Branches

BranchTaken == BranchCondition(last.pre, last.inst.mnemonic)

\* (p + 2 + o) mod 2^16 for the branch at p with the signed offset byte o
BranchTarget ==
    (last.pre.pc + 2 + (IF last.fetched[2] >= 128 THEN last.fetched[2] - 256
                        ELSE last.fetched[2])) % 65536

SamePage(a, b) == (a \div 256) = (b \div 256)

\* C15: a branch returns 2 cycles when its condition is false, 3 when it is
\* true and the target lies in the page of PC, 4 when it is true and the
\* target lies in another page; a branch not taken changes nothing but PC,
\* by +2.  PC is read as either the address of the branch or the address
\* after it.
C15_BranchTiming ==
    BranchRan =>
        IF BranchTaken
        THEN \/ last.mops.cycles =
                    IF SamePage(BranchTarget, last.pre.pc) THEN 3 ELSE 4
             \/ last.mops.cycles =
                    IF SamePage(BranchTarget, (last.pre.pc + 2) % 65536)
                    THEN 3 ELSE 4
        ELSE /\ last.mops.cycles = 2
             /\ cpu = [last.pre EXCEPT !.pc = (last.pre.pc + 2) % 65536]
             /\ bus = last.prebus

\* C16: a taken branch at p with signed offset o leaves PC = (p + 2 + o) mod
\* 2^16.
C16_BranchTarget ==
    (BranchRan /\ BranchTaken) => cpu.pc = BranchTarget

(***************************************************************************)
(* Claims about JMP.                                                       *)
(***************************************************************************)
JmpRan == last.op = "step" /\ last.inst.mnemonic = "JMP"

JmpTarget ==
    IF last.inst.mode = "Absolute"
    THEN from_le_bytes(last.fetched[2], last.fetched[3])
    ELSE from_le_bytes(
            MapRead(last.prebus, from_le_bytes(last.fetched[2], last.fetched[3])),
            MapRead(last.prebus,
                    Wrap16(from_le_bytes(last.fetched[2], last.fetched[3]) + 1)))

\* C17: a step that executes JMP completes and leaves PC equal to the target
\* (the operand for Absolute, the little-endian word at the operand and the
\* byte after it for Indirect), whatever the target, and changes no other
\* register, no flag and no memory.
C17_JmpNetEffect ==
    JmpRan => /\ last.result = "ok"
              /\ cpu = [last.pre EXCEPT !.pc = JmpTarget]
              /\ bus = last.prebus

(***************************************************************************)
(* Claims about the indexed addressing modes.                              *)
(***************************************************************************)
ZeroPageIndexedRan ==
    /\ last.op = "step" /\ last.result = "ok"
    /\ last.inst.mode \in {"ZeroPageIndexedWithX", "ZeroPageIndexedWithY"}

ZeroPageIndex ==
    IF last.inst.mode = "ZeroPageIndexedWithX" THEN last.pre.x ELSE last.pre.y

ZeroPageEffective == (last.fetched[2] + ZeroPageIndex) % 256

\* the microcode the same mnemonic generates in another mode at an address
SameMnemonicAt(mode, addr) ==
    Generate(last.pre, last.prebus,
             [last.inst EXCEPT !.mode = mode, !.opnd = addr]).microcode

\* C18: an instruction in ZeroPageIndexedWithX or ZeroPageIndexedWithY works
\* on the address (zp + index) & 0xFF: it does what the same mnemonic does in
\* ZeroPage mode at that address, every byte it writes goes to that address,
\* and LDA, LDX and LDY load the byte found there.
C18_ZeroPageIndexWraps ==
    ZeroPageIndexedRan =>
        /\ last.mops.microcode = SameMnemonicAt("ZeroPage", ZeroPageEffective)
        /\ \A k \in 1..Len(StepList) :
               StepList[k].kind = "WriteMemory"
                   => StepList[k].target = ZeroPageEffective
        /\ last.inst.mnemonic = "LDA"
               => cpu.acc = MapRead(last.prebus, ZeroPageEffective)
        /\ last.inst.mnemonic = "LDX"
               => cpu.x = MapRead(last.prebus, ZeroPageEffective)
        /\ last.inst.mnemonic = "LDY"
               => cpu.y = MapRead(last.prebus, ZeroPageEffective)

\* LDA $FF,X with X = 1 has loaded the byte at 0x0000, not the one at 0x0100
C18_Witness ==
    /\ ZeroPageIndexedRan
    /\ last.inst.mnemonic = "LDA"
    /\ last.fetched[2] = 255 /\ last.pre.x = 1
    /\ cpu.acc = 240 /\ last.pre.acc /= 240

AbsoluteIndexedReads ==
    {"ADC", "AND", "CMP", "EOR", "LDA", "LDX", "LDY", "ORA", "SBC"}

AbsoluteIndexedReadRan ==
    /\ last.op = "step" /\ last.result = "ok"
    /\ last.inst.mnemonic \in AbsoluteIndexedReads
    /\ last.inst.mode \in {"AbsoluteIndexedWithX", "AbsoluteIndexedWithY"}

AbsoluteBase == from_le_bytes(last.fetched[2], last.fetched[3])

AbsoluteIndex ==
    IF last.inst.mode = "AbsoluteIndexedWithX" THEN last.pre.x ELSE last.pre.y

AbsoluteEffective == (AbsoluteBase + AbsoluteIndex) % 65536

\* C19: a reading instruction in AbsoluteIndexedWithX or AbsoluteIndexedWithY
\* works on the address (base + index) mod 2^16, doing what the same mnemonic
\* does in Absolute mode at that address, and its cycle count is the base
\* count plus one exactly when base and effective address differ in their
\* high byte.
C19_AbsoluteIndexedRead ==
    AbsoluteIndexedReadRan =>
        /\ last.mops.microcode = SameMnemonicAt("Absolute", AbsoluteEffective)
        /\ last.mops.cycles =
              last.inst.cycles
              + (IF (AbsoluteBase \div 256) /= (AbsoluteEffective \div 256)
                 THEN 1 ELSE 0)
        /\ last.inst.mnemonic = "LDA"
               => cpu.acc = MapRead(last.prebus, AbsoluteEffective)
        /\ last.inst.mnemonic = "LDX"
               => cpu.x = MapRead(last.prebus, AbsoluteEffective)
        /\ last.inst.mnemonic = "LDY"
               => cpu.y = MapRead(last.prebus, AbsoluteEffective)

\* LDA $FFFF,X with X = 1 has loaded the byte at 0x0000 and paid the penalty
C19_Witness ==
    /\ AbsoluteIndexedReadRan
    /\ last.inst.mnemonic = "LDA"
    /\ AbsoluteBase = 65535 /\ last.pre.x = 1
    /\ cpu.acc = 240 /\ last.pre.acc /= 240
    /\ last.mops.cycles = last.inst.cycles + 1

IndirectYReads == {"ADC", "AND", "CMP", "EOR", "LDA", "ORA", "SBC"}

IndirectYRan ==
    /\ last.op = "step" /\ last.result = "ok"
    /\ last.inst.mnemonic \in IndirectYReads
    /\ last.inst.mode = "IndirectYIndexed"

IndirectPointer ==
    from_le_bytes(MapRead(last.prebus, last.fetched[2]),
                  MapRead(last.prebus, (last.fetched[2] + 1) % 256))

IndirectEffective == (IndirectPointer + last.pre.y) % 65536

\* C20: a reading instruction in IndirectYIndexed mode costs its base cycles
\* plus one exactly when the pointer read from the zero page and the
\* effective address pointer + Y differ in their high byte.
C20_IndirectYPenalty ==
    IndirectYRan =>
        last.mops.cycles =
            last.inst.cycles
            + (IF (IndirectPointer \div 256) /= (IndirectEffective \div 256)
               THEN 1 ELSE 0)

(***************************************************************************)
(* Claims about the 6502 stack.                                            *)
(***************************************************************************)
Pushes == {"PHA", "PHP"}

Pulls == {"PLA", "PLP"}

\* the registers after step j of the run so far
AfterStep(j) == IF j = last.n THEN cpu ELSE last.trace[j + 1].pre

\* the byte step j pushed
PushedBy(j) ==
    IF last.trace[j].inst.mnemonic = "PHA" THEN last.trace[j].pre.acc
    ELSE PsRead(last.trace[j].pre.ps)

\* step j pulled this byte: PLA has it in ACC, PLP has its flags in PS
PulledBy(j, byte) ==
    IF last.trace[j].inst.mnemonic = "PLA" THEN AfterStep(j).acc = byte
    ELSE AfterStep(j).ps = PsWrite(byte)

\* the run so far is n pushes followed by n pulls, all completed
BalancedRun ==
    /\ last.op = "step" /\ last.result = "ok"
    /\ last.n >= 2 /\ last.n % 2 = 0
    /\ \A j \in 1..last.n :
          last.trace[j].inst.mnemonic \in
              (IF j <= last.n \div 2 THEN Pushes ELSE Pulls)

\* C21: PHA and PHP write at 0x0100|SP and then decrement SP, wrapping; PLA
\* and PLP increment SP, wrapping, and read at 0x0100|SP; so n pushes followed
\* by n pulls leave SP where it started and hand the bytes back last in, first
\* out, PHA then PLA restores ACC and PHP then PLP restores PS.
C21_StackDiscipline ==
    /\ (last.op = "step" /\ last.result = "ok"
            /\ last.inst.mnemonic \in Pushes)
        => /\ cpu.sp = (last.pre.sp - 1) % 256
           /\ MapRead(bus, 256 + last.pre.sp) = PushedBy(last.n)
           /\ \A k \in 1..Len(StepList) :
                 StepList[k].kind = "WriteMemory"
                     => StepList[k].target = 256 + last.pre.sp
    /\ (last.op = "step" /\ last.result = "ok"
            /\ last.inst.mnemonic \in Pulls)
        => /\ cpu.sp = (last.pre.sp + 1) % 256
           /\ PulledBy(last.n, MapRead(last.prebus, 256 + cpu.sp))
           /\ bus = last.prebus
    /\ BalancedRun
        => /\ cpu.sp = last.trace[1].pre.sp
           /\ \A k \in 1..(last.n \div 2) :
                 PulledBy(last.n \div 2 + k, PushedBy(last.n \div 2 + 1 - k))
           /\ (last.n = 2 /\ last.trace[1].inst.mnemonic = "PHA"
                    /\ last.inst.mnemonic = "PLA")
               => cpu.acc = last.trace[1].pre.acc
           /\ (last.n = 2 /\ last.trace[1].inst.mnemonic = "PHP"
                    /\ last.inst.mnemonic = "PLP")
               => cpu.ps = last.trace[1].pre.ps

\* PHA, PHP, PLA, PLA from SP = 0x00: the stack pointer wrapped to 0xFE and
\* came back, and the accumulator holds the byte pushed first after having
\* held the status byte pushed second
C21_Witness ==
    /\ BalancedRun /\ last.n = 4
    /\ last.trace[1].pre.sp = 0 /\ last.trace[3].pre.sp = 254 /\ cpu.sp = 0
    /\ last.trace[1].inst.mnemonic = "PHA"
    /\ last.trace[2].inst.mnemonic = "PHP"
    /\ last.trace[3].inst.mnemonic = "PLA" /\ last.inst.mnemonic = "PLA"
    /\ last.pre.acc = PsRead(last.trace[1].pre.ps)
    /\ last.pre.acc /= last.trace[1].pre.acc
    /\ cpu.acc = last.trace[1].pre.acc

(***************************************************************************)
(* Claims about the per-cycle list and the decoder of the 6502.            *)
(***************************************************************************)
Generated == last.op = "step" /\ last.result /= "unknown_opcode"

CycleList == MOpsIntoCycles(last.mops)

\* C22: the per-cycle list of a generated instruction has exactly `cycles`
\* entries; all but the last are empty and the last is the generator's
\* microcode, in order, followed by one Inc16bitRegister(PC, byte length),
\* which is the only microcode added.
C22_PerCycleExpansion ==
    Generated =>
        /\ Len(CycleList) = last.mops.cycles
        /\ \A i \in 1..(last.mops.cycles - 1) : CycleList[i] = << >>
        /\ Len(CycleList[last.mops.cycles]) = Len(last.mops.microcode) + 1
        /\ SubSeq(CycleList[last.mops.cycles], 1, Len(last.mops.microcode))
              = last.mops.microcode
        /\ CycleList[last.mops.cycles][Len(last.mops.microcode) + 1]
              = Inc16bitRegister("PC", ModeOffset(last.inst.mode) + 1)
        /\ Len(StepList) = Len(last.mops.microcode) + 1

\* LDA $04: two empty cycles, then the two flags, the accumulator and the
\* advance of PC by 2
C22_Witness ==
    /\ Generated
    /\ last.inst.mnemonic = "LDA" /\ last.inst.mode = "ZeroPage"
    /\ last.fetched[2] = 4
    /\ CycleList = << << >>, << >>,
                      <<SetFlag("Negative", TRUE), SetFlag("Zero", FALSE),
                        Write8bitRegister("ACC", 255),
                        Inc16bitRegister("PC", 2)>> >>

\* the opcode byte, mnemonic and addressing mode of every instruction that
\* gen_instruction_cycles_and_parser! declares, in the order of the source
InstructionTable ==
    {<<109, "ADC", "Absolute">>, <<125, "ADC", "AbsoluteIndexedWithX">>,
     <<121, "ADC", "AbsoluteIndexedWithY">>,
     <<113, "ADC", "IndirectYIndexed">>, <<105, "ADC", "Immediate">>,
     <<97, "ADC", "XIndexedIndirect">>, <<101, "ADC", "ZeroPage">>,
     <<117, "ADC", "ZeroPageIndexedWithX">>, <<237, "SBC", "Absolute">>,
     <<253, "SBC", "AbsoluteIndexedWithX">>,
     <<249, "SBC", "AbsoluteIndexedWithY">>,
     <<241, "SBC", "IndirectYIndexed">>, <<233, "SBC", "Immediate">>,
     <<225, "SBC", "XIndexedIndirect">>, <<229, "SBC", "ZeroPage">>,
     <<245, "SBC", "ZeroPageIndexedWithX">>, <<45, "AND", "Absolute">>,
     <<61, "AND", "AbsoluteIndexedWithX">>,
     <<57, "AND", "AbsoluteIndexedWithY">>,
     <<49, "AND", "IndirectYIndexed">>, <<41, "AND", "Immediate">>,
     <<33, "AND", "XIndexedIndirect">>, <<37, "AND", "ZeroPage">>,
     <<53, "AND", "ZeroPageIndexedWithX">>, <<77, "EOR", "Absolute">>,
     <<93, "EOR", "AbsoluteIndexedWithX">>,
     <<89, "EOR", "AbsoluteIndexedWithY">>,
     <<81, "EOR", "IndirectYIndexed">>, <<73, "EOR", "Immediate">>,
     <<65, "EOR", "XIndexedIndirect">>, <<69, "EOR", "ZeroPage">>,
     <<85, "EOR", "ZeroPageIndexedWithX">>, <<13, "ORA", "Absolute">>,
     <<29, "ORA", "AbsoluteIndexedWithX">>,
     <<25, "ORA", "AbsoluteIndexedWithY">>,
     <<17, "ORA", "IndirectYIndexed">>, <<9, "ORA", "Immediate">>,
     <<1, "ORA", "XIndexedIndirect">>, <<5, "ORA", "ZeroPage">>,
     <<21, "ORA", "ZeroPageIndexedWithX">>, <<144, "BCC", "Relative">>,
     <<176, "BCS", "Relative">>, <<240, "BEQ", "Relative">>,
     <<48, "BMI", "Relative">>, <<208, "BNE", "Relative">>,
     <<16, "BPL", "Relative">>, <<80, "BVC", "Relative">>,
     <<112, "BVS", "Relative">>, <<24, "CLC", "Implied">>,
     <<216, "CLD", "Implied">>, <<88, "CLI", "Implied">>,
     <<184, "CLV", "Implied">>, <<205, "CMP", "Absolute">>,
     <<221, "CMP", "AbsoluteIndexedWithX">>,
     <<217, "CMP", "AbsoluteIndexedWithY">>,
     <<209, "CMP", "IndirectYIndexed">>, <<201, "CMP", "Immediate">>,
     <<193, "CMP", "XIndexedIndirect">>, <<197, "CMP", "ZeroPage">>,
     <<213, "CMP", "ZeroPageIndexedWithX">>, <<236, "CPX", "Absolute">>,
     <<224, "CPX", "Immediate">>, <<228, "CPX", "ZeroPage">>,
     <<204, "CPY", "Absolute">>, <<192, "CPY", "Immediate">>,
     <<196, "CPY", "ZeroPage">>, <<206, "DEC", "Absolute">>,
     <<222, "DEC", "AbsoluteIndexedWithX">>, <<198, "DEC", "ZeroPage">>,
     <<214, "DEC", "ZeroPageIndexedWithX">>, <<202, "DEX", "Implied">>,
     <<136, "DEY", "Implied">>, <<238, "INC", "Absolute">>,
     <<254, "INC", "AbsoluteIndexedWithX">>, <<230, "INC", "ZeroPage">>,
     <<246, "INC", "ZeroPageIndexedWithX">>, <<232, "INX", "Implied">>,
     <<200, "INY", "Implied">>, <<76, "JMP", "Absolute">>,
     <<108, "JMP", "Indirect">>, <<169, "LDA", "Immediate">>,
     <<165, "LDA", "ZeroPage">>, <<181, "LDA", "ZeroPageIndexedWithX">>,
     <<173, "LDA", "Absolute">>, <<189, "LDA", "AbsoluteIndexedWithX">>,
     <<185, "LDA", "AbsoluteIndexedWithY">>,
     <<177, "LDA", "IndirectYIndexed">>, <<161, "LDA", "XIndexedIndirect">>,
     <<174, "LDX", "Absolute">>, <<190, "LDX", "AbsoluteIndexedWithY">>,
     <<162, "LDX", "Immediate">>, <<166, "LDX", "ZeroPage">>,
     <<182, "LDX", "ZeroPageIndexedWithY">>, <<172, "LDY", "Absolute">>,
     <<188, "LDY", "AbsoluteIndexedWithX">>, <<160, "LDY", "Immediate">>,
     <<164, "LDY", "ZeroPage">>, <<180, "LDY", "ZeroPageIndexedWithX">>,
     <<234, "NOP", "Implied">>, <<72, "PHA", "Implied">>,
     <<8, "PHP", "Implied">>, <<104, "PLA", "Implied">>,
     <<40, "PLP", "Implied">>, <<56, "SEC", "Implied">>,
     <<248, "SED", "Implied">>, <<120, "SEI", "Implied">>,
     <<141, "STA", "Absolute">>, <<157, "STA", "AbsoluteIndexedWithX">>,
     <<153, "STA", "AbsoluteIndexedWithY">>,
     <<145, "STA", "IndirectYIndexed">>, <<129, "STA", "XIndexedIndirect">>,
     <<133, "STA", "ZeroPage">>, <<149, "STA", "ZeroPageIndexedWithX">>,
     <<142, "STX", "Absolute">>, <<134, "STX", "ZeroPage">>,
     <<150, "STX", "ZeroPageIndexedWithY">>, <<140, "STY", "Absolute">>,
     <<132, "STY", "ZeroPage">>, <<148, "STY", "ZeroPageIndexedWithX">>,
     <<170, "TAX", "Implied">>, <<168, "TAY", "Implied">>,
     <<186, "TSX", "Implied">>, <<138, "TXA", "Implied">>,
     <<154, "TXS", "Implied">>, <<152, "TYA", "Implied">>}

TableRows == {r \in InstructionTable : r[1] = last.fetched[1]}

\* the byte length the modes are said to have
LengthOfMode(mode) ==
    CASE mode = "Implied" -> 1
      [] mode \in {"Immediate", "ZeroPage", "ZeroPageIndexedWithX",
                   "ZeroPageIndexedWithY", "XIndexedIndirect",
                   "IndirectYIndexed", "Relative"} -> 2
      [] mode \in {"Absolute", "AbsoluteIndexedWithX", "AbsoluteIndexedWithY",
                   "Indirect"} -> 3

\* C23: a step decodes its instruction iff the first byte is an opcode of the
\* table; the byte then selects the one mnemonic and addressing mode declared
\* with it, with byte length 1 for Implied, 3 for the absolute modes and
\* Indirect and 2 for the others; any other first byte ends the step with the
\* unknown-opcode error.
C23_DecodeByTable ==
    last.op = "step" =>
        /\ Cardinality(TableRows) <= 1
        /\ (last.result = "unknown_opcode") = (TableRows = {})
        /\ \A r \in TableRows :
              /\ last.inst.mnemonic = r[2]
              /\ last.inst.mode = r[3]
              /\ last.inst.offset = LengthOfMode(r[3])
              /\ last.mops.offset = LengthOfMode(r[3])

\* 0xBD decoded as LDA AbsoluteIndexedWithX, three bytes long
C23_Witness ==
    /\ last.op = "step" /\ last.fetched[1] = 189
    /\ last.inst.mnemonic = "LDA"
    /\ last.inst.mode = "AbsoluteIndexedWithX"
    /\ last.inst.offset = 3

(***************************************************************************)
(* Claims about the CHIP-8 instructions.                                   *)
(***************************************************************************)
Chip8Ran(names) ==
    clast.op = "step" /\ clast.result = "ok" /\ clast.inst.name \in names

\* the interpreter but for the pending key, which its owner may have set
\* since the step
ChipButKey == [chip EXCEPT !.interrupt = clast.pre.interrupt]

\* the interpreter after step j of the run so far
Chip8AfterStep(j) == IF j = clast.n THEN chip ELSE clast.trace[j + 1].pre

\* C24: a step of LD Vx,K taken while no key is pending leaves PC and every
\* register as they were, so that the steps before the first key all execute
\* the same LD Vx,K; the step that finds key k pending leaves k in Vx and PC
\* advanced by 2.
C24_LdKBlocks ==
    Chip8Ran({"LdK"}) =>
        /\ clast.pre.interrupt = NoKey => ChipButKey = clast.pre
        /\ clast.pre.interrupt /= NoKey =>
              ChipButKey = [clast.pre EXCEPT
                                !.v[clast.fetched[2]] = clast.pre.interrupt,
                                !.pc = (clast.pre.pc + 2) % 4096]
        /\ \A j \in 1..(clast.n - 1) :
              (\A m \in 1..j : clast.trace[m].pre.interrupt = NoKey)
                  => /\ clast.trace[j + 1].inst = clast.trace[1].inst
                     /\ clast.trace[j + 1].pre.pc = clast.trace[1].pre.pc

\* LD V1,K waited two steps at 0x200, then found key 0xF: V1 = 0x0F, PC = 0x202
C24_Witness ==
    /\ Chip8Ran({"LdK"}) /\ clast.n = 3
    /\ clast.trace[1].pre.interrupt = NoKey
    /\ clast.trace[2].pre.interrupt = NoKey
    /\ clast.trace[2].pre.pc = 512 /\ clast.pre.pc = 512
    /\ clast.pre.interrupt = 15 /\ clast.fetched[2] = 1
    /\ clast.pre.v[1] /= 15 /\ chip.v[1] = 15 /\ chip.pc = 514

\* C25: ADD Vx,Vy leaves (Vx + Vy) mod 256 in Vx and in VF 1 if the sum
\* exceeds 255, else 0; with x = F the flag, written last, is what VF holds;
\* no other register changes and PC advances by 2.
C25_AddWithCarry ==
    Chip8Ran({"AddVxVy"}) =>
        LET x == clast.fetched[2]
            y == clast.fetched[3]
            sum == clast.pre.v[x] + clast.pre.v[y]
        IN  /\ chip.v[Vf] = (IF sum > 255 THEN 1 ELSE 0)
            /\ x /= Vf => chip.v[x] = sum % 256
            /\ \A n \in Nibble \ {x, Vf} : chip.v[n] = clast.pre.v[n]
            /\ chip.pc = (clast.pre.pc + 2) % 4096

\* ADD V0,V1 with V0 = 0xFF and V1 = 0x01: V0 = 0x00, VF = 1
C25_Witness ==
    /\ Chip8Ran({"AddVxVy"})
    /\ clast.fetched[2] = 0 /\ clast.fetched[3] = 1
    /\ clast.pre.v[0] = 255 /\ clast.pre.v[1] = 1 /\ clast.pre.v[Vf] /= 1
    /\ chip.v[0] = 0 /\ chip.v[Vf] = 1 /\ chip.pc = clast.pre.pc + 2

\* a step on a word 8xy5 or 8xy7 whose x is not F
SubtractWord ==
    /\ clast.op = "step"
    /\ clast.fetched[1] = 8 /\ clast.fetched[4] \in {5, 7}
    /\ clast.fetched[2] /= Vf

\* C26: a step on 8xy5 (SUB) leaves (Vx - Vy) mod 256 in Vx and VF = 1 iff
\* Vx >= Vy before; a step on 8xy7 (SUBN) leaves (Vy - Vx) mod 256 in Vx and
\* VF = 1 iff Vy >= Vx before; Vy keeps its value when y is neither x nor F.
C26_SubAndSubn ==
    SubtractWord =>
        LET x == clast.fetched[2]
            y == clast.fetched[3]
            minuend == IF clast.fetched[4] = 5 THEN clast.pre.v[x]
                       ELSE clast.pre.v[y]
            subtrahend == IF clast.fetched[4] = 5 THEN clast.pre.v[y]
                          ELSE clast.pre.v[x]
        IN  /\ clast.result = "ok"
            /\ chip.v[x] = (minuend - subtrahend) % 256
            /\ chip.v[Vf] = (IF minuend >= subtrahend THEN 1 ELSE 0)
            /\ y \notin {x, Vf} => chip.v[y] = clast.pre.v[y]

\* the patterns of the CHIP-8 opcode table and the instruction each stands
\* for
PatternTable ==
    <<<<"Cls", <<0, 0, 14, 0>>>>, <<"Ret", <<0, 0, 14, 14>>>>,
      <<"JpNonV0Indexed", <<1, Var, Var, Var>>>>,
      <<"Call", <<2, Var, Var, Var>>>>,
      <<"SeImmediate", <<3, Var, Var, Var>>>>,
      <<"SneImmediate", <<4, Var, Var, Var>>>>,
      <<"SeVxVy", <<5, Var, Var, 0>>>>,
      <<"LdImmediate", <<6, Var, Var, Var>>>>,
      <<"AddImmediate", <<7, Var, Var, Var>>>>,
      <<"LdVxVy", <<8, Var, Var, 0>>>>, <<"Or", <<8, Var, Var, 1>>>>,
      <<"And", <<8, Var, Var, 2>>>>, <<"Xor", <<8, Var, Var, 3>>>>,
      <<"AddVxVy", <<8, Var, Var, 4>>>>, <<"Sub", <<8, Var, Var, 5>>>>,
      <<"Shr", <<8, Var, Var, 6>>>>, <<"Subn", <<8, Var, Var, 7>>>>,
      <<"Shl", <<8, Var, Var, 14>>>>, <<"SneVxVy", <<9, Var, Var, 0>>>>,
      <<"LdAbsolute", <<10, Var, Var, Var>>>>,
      <<"JpV0Indexed", <<11, Var, Var, Var>>>>,
      <<"Rnd", <<12, Var, Var, Var>>>>, <<"Skp", <<14, Var, 9, 14>>>>,
      <<"Sknp", <<14, Var, 10, 1>>>>,
      <<"LdDelayTimerSrcTx", <<15, Var, 0, 7>>>>,
      <<"LdK", <<15, Var, 0, 10>>>>,
      <<"LdDelayTimerDestTx", <<15, Var, 1, 5>>>>,
      <<"LdSoundTimerDestTx", <<15, Var, 1, 8>>>>,
      <<"AddIRegisterIndexed", <<15, Var, 1, 14>>>>,
      <<"LdBcd", <<15, Var, 3, 3>>>>,
      <<"StoreRegistersToMemory", <<15, Var, 5, 5>>>>,
      <<"ReadRegistersFromMemory", <<15, Var, 6, 5>>>>>>

PatternsOf(n) ==
    {k \in 1..Len(PatternTable) :
        \A j \in 1..4 : PatternTable[k][2][j] \in {Var, n[j]}}

\* C27: a step on a word that matches a pattern of the opcode table decodes
\* the instruction of that pattern (6xkk, 4xkk, 9xy0, 8xy5, Cxkk and Fx33
\* among them), and a step fails with the unknown-opcode error only on a word
\* that matches no pattern.
C27_DecodeCoverage ==
    clast.op = "step" =>
        /\ \A k \in PatternsOf(clast.fetched) :
              /\ clast.result /= "unknown_opcode"
              /\ clast.inst.name = PatternTable[k][1]
        /\ PatternsOf(clast.fetched) = {}
              => clast.result = "unknown_opcode"

(***************************************************************************)
(* Claims about the CHIP-8 call stack, jumps and skips.                    *)
(***************************************************************************)
\* calls less returns among the steps i..j of the run so far
RECURSIVE CallDepth(_, _)
CallDepth(i, j) ==
    IF j < i THEN 0
    ELSE CallDepth(i, j - 1)
         + (CASE clast.trace[j].inst.name = "Call" -> 1
              [] clast.trace[j].inst.name = "Ret" -> -1
              [] OTHER -> 0)

\* step j is the RET that matches the CALL of step i
MatchingReturn(i, j) ==
    /\ i < j
    /\ clast.trace[i].inst.name = "Call"
    /\ clast.trace[j].inst.name = "Ret"
    /\ CallDepth(i, j) = 0
    /\ \A k \in i..(j - 1) : CallDepth(i, k) > 0

\* the value the CALL of step i pushed
PushedByCall(i) == Chip8AfterStep(i).stack[clast.trace[i].pre.sp]

\* C28: CALL stores the value it pushes at stack[SP] and leaves SP + 1; RET
\* jumps to stack[SP - 1], the value pushed last, and leaves SP - 1; in a run
\* of nested CALLs and RETs every RET jumps to the value its matching CALL
\* pushed and leaves SP as that CALL found it.
C28_CallStackIsLifo ==
    /\ Chip8Ran({"Call"}) =>
          /\ chip.stack[clast.pre.sp] = clast.mops.microcode[1].value
          /\ chip.sp = clast.pre.sp + 1
    /\ (Chip8Ran({"Ret"}) /\ clast.pre.sp > 0) =>
          /\ chip.pc % 4096 = clast.pre.stack[clast.pre.sp - 1] % 4096
          /\ chip.sp = clast.pre.sp - 1
    /\ clast.op = "step" =>
          \A i, j \in 1..clast.n :
              MatchingReturn(i, j) =>
                  /\ Chip8AfterStep(j).pc % 4096 = PushedByCall(i) % 4096
                  /\ Chip8AfterStep(j).sp = clast.trace[i].pre.sp

\* the 12-bit operand nnn of the word the last step fetched
FetchedAddress ==
    clast.fetched[2] * 256 + clast.fetched[3] * 16 + clast.fetched[4]

\* C29: after JP nnn PC = nnn, after JP V0,nnn PC = nnn + V0 (PC is 12 bits
\* wide) and after CALL nnn PC = nnn, for every nnn, 0x000 and 0x001 among
\* them.
C29_JumpsLandOnTarget ==
    /\ Chip8Ran({"JpNonV0Indexed", "Call"}) =>
          chip.pc % 4096 = FetchedAddress
    /\ Chip8Ran({"JpV0Indexed"}) =>
          chip.pc % 4096 = (FetchedAddress + clast.pre.v[0]) % 4096

\* JP 0x000 at 0x200: PC = 0x000
C29_Witness ==
    /\ Chip8Ran({"JpNonV0Indexed"})
    /\ clast.fetched = <<1, 0, 0, 0>> /\ clast.pre.pc = 512
    /\ chip.pc = 0

\* a step on a word 3xkk, 4xkk, 5xy0 or 9xy0
SkipWord ==
    /\ clast.op = "step"
    /\ \/ clast.fetched[1] \in {3, 4}
       \/ clast.fetched[1] \in {5, 9} /\ clast.fetched[4] = 0

\* the two values the word of the last step compares are equal
ComparedEqual ==
    IF clast.fetched[1] \in {3, 4}
    THEN clast.pre.v[clast.fetched[2]]
            = clast.fetched[3] * 16 + clast.fetched[4]
    ELSE clast.pre.v[clast.fetched[2]] = clast.pre.v[clast.fetched[3]]

\* C30: a step on SE (3xkk, 5xy0) ends with PC advanced by 4 iff the two
\* values compared are equal and by 2 otherwise; a step on SNE (4xkk, 9xy0)
\* ends with PC advanced by 4 iff they differ and by 2 otherwise; nothing but
\* PC changes.
C30_ConditionalSkips ==
    SkipWord =>
        LET skips == IF clast.fetched[1] \in {3, 5} THEN ComparedEqual
                     ELSE ~ComparedEqual
        IN  /\ clast.result = "ok"
            /\ chip.pc % 4096
                  = (clast.pre.pc + (IF skips THEN 4 ELSE 2)) % 4096
            /\ [chip EXCEPT !.pc = 0] = [clast.pre EXCEPT !.pc = 0]

(***************************************************************************)
(* Claims about overflow in the generators.                                *)
(***************************************************************************)
\* C31: no generator aborts on an arithmetic overflow: whatever the registers
\* and the operand, a step that decodes its instruction generates its list,
\* the address arithmetic wrapping at the width of the register (X-indexed
\* indirect with X = 0xFF, JMP to a target below 3 among the cases).
C31_NoGeneratorAborts ==
    last.op = "step" => last.result /= "panic"

(***************************************************************************)
(* Further claims about the CHIP-8 instructions.                           *)
(***************************************************************************)
\* C32: when the RET that matches a CALL executed at address p is executed,
\* PC after that step is p + 2, the instruction that follows the CALL.
C32_ReturnResumesAfterCall ==
    clast.op = "step" =>
        \A i, j \in 1..clast.n :
            MatchingReturn(i, j) =>
                Chip8AfterStep(j).pc % 4096
                    = (clast.trace[i].pre.pc + 2) % 4096

\* the parsers of the list the step tries whose pattern the word n matches
ParsersMatching(n) ==
    {k \in 1..Len(OpcodeVariantParser) :
        instruction_matches_nibble_mask(n, OpcodeVariantParser[k][2])}

\* C33: the word a step fetches matches the pattern of at most one parser of
\* the list, so that no parser of the list is shadowed by an earlier one.
C33_DecodeIsUnambiguous ==
    clast.op = "step" => Cardinality(ParsersMatching(clast.fetched)) <= 1

\* PC after a step of the instruction `name` on the register of the last
\* step, taken from the state the last step started from
PcAfterSkipInstruction(name) ==
    Chip8ExecuteFrom(clast.pre,
        Append(Chip8Generate(clast.pre,
                             [clast.inst EXCEPT !.name = name], 0).microcode,
               Inc16bitRegister("ProgramCounter", 2)), 1).chip.pc % 4096

\* C34: from any state and for any register x, one of SKP Vx and SKNP Vx ends
\* with PC advanced by 4 and the other with PC advanced by 2; with no key
\* pending it is SKNP that skips; nothing but PC changes.
C34_SkpSknpComplementary ==
    Chip8Ran({"Skp", "Sknp"}) =>
        LET next == (clast.pre.pc + 2) % 4096
            skip == (clast.pre.pc + 4) % 4096
        IN  /\ chip.pc % 4096 = PcAfterSkipInstruction(clast.inst.name)
            /\ {PcAfterSkipInstruction("Skp"), PcAfterSkipInstruction("Sknp")}
                  = {next, skip}
            /\ clast.pre.interrupt = NoKey =>
                  /\ PcAfterSkipInstruction("Skp") = next
                  /\ PcAfterSkipInstruction("Sknp") = skip
            /\ [chip EXCEPT !.pc = 0] = [clast.pre EXCEPT !.pc = 0]

\* SKP V0 at 0x200 with key 7 pending and V0 = 7: PC = 0x204
C34_Witness ==
    /\ Chip8Ran({"Skp"})
    /\ clast.fetched = <<14, 0, 9, 14>>
    /\ clast.pre.interrupt = 7 /\ clast.pre.v[0] = 7 /\ clast.pre.pc = 512
    /\ chip.pc = 516

\* the last two steps were LD [I],Vx and then LD Vx,[I] with the same x, the
\* first one completed
StoreThenRead ==
    /\ Chip8Ran({"ReadRegistersFromMemory"}) /\ clast.n >= 2
    /\ clast.trace[clast.n - 1].inst.name = "StoreRegistersToMemory"
    /\ clast.trace[clast.n - 1].inst.register = clast.inst.register
    /\ clast.pre.pc = clast.trace[clast.n - 1].pre.pc + 2

\* C35: LD [I],Vx generates x + 1 writes, of V0..Vx in ascending order to
\* mem[I + r]; LD Vx,[I] generates x + 1 register writes, of mem[I + r] to
\* V0..Vx in ascending order; neither changes I or a register above Vx, the
\* store changes no register at all; the store followed by the read with the
\* same x leaves V0..Vx as they were before the store.
C35_StoreAndReadRegisters ==
    LET x == clast.fetched[2]
        code == clast.mops.microcode
    IN  /\ Chip8Ran({"StoreRegistersToMemory"}) =>
              /\ Len(code) = x + 1 /\ Len(code) <= 16
              /\ \A r \in 0..x :
                    /\ code[r + 1] = WriteMemory(clast.pre.i + r, clast.pre.v[r])
                    /\ MapRead(chip.address_space, clast.pre.i + r)
                          = clast.pre.v[r]
              /\ ChipButKey = [clast.pre EXCEPT
                                  !.pc = (clast.pre.pc + 2) % 4096,
                                  !.address_space = chip.address_space]
        /\ Chip8Ran({"ReadRegistersFromMemory"}) =>
              /\ Len(code) = x + 1 /\ Len(code) <= 16
              /\ \A r \in 0..x :
                    /\ code[r + 1] = Write8bitRegister(Gp(r),
                          MapRead(clast.pre.address_space, clast.pre.i + r))
                    /\ chip.v[r]
                          = MapRead(clast.pre.address_space, clast.pre.i + r)
              /\ ChipButKey = [clast.pre EXCEPT
                                  !.pc = (clast.pre.pc + 2) % 4096,
                                  !.v = [n \in Nibble |->
                                            IF n <= x THEN chip.v[n] ELSE @[n]]]
        /\ StoreThenRead =>
              \A r \in 0..x : chip.v[r] = clast.trace[clast.n - 1].pre.v[r]

\* LD [I],V1 then LD V1,[I] with V0 = 0xFF, V1 = 0xC8 and mem[I], mem[I + 1]
\* holding 0 at first: the read finds 0xFF and 0xC8
C35_Witness ==
    /\ StoreThenRead /\ clast.fetched[2] = 1
    /\ clast.trace[1].pre.v[0] = 255 /\ clast.trace[1].pre.v[1] = 200
    /\ MapRead(clast.trace[1].pre.address_space, clast.pre.i) = 0
    /\ MapRead(clast.pre.address_space, clast.pre.i) = 255
    /\ MapRead(clast.pre.address_space, clast.pre.i + 1) = 200
    /\ chip.v[0] = 255 /\ chip.v[1] = 200

\* generate was called on LD B,Vx
LdBcdGenerated == clast.op = "generate" /\ clast.inst.name = "LdBcd"

\* the list the last call of generate returned
GeneratedList == clast.lists[Len(clast.lists)].microcode

\* C36: for every value v of Vx the list generated for LD B,Vx is three
\* writes, to mem[I], mem[I + 1] and mem[I + 2] in that order, of digits
\* h, t, o in 0..9 with 100 h + 10 t + o = v; applied, the list leaves those
\* digits in memory and every register, Vx and I among them, as it was.
C36_LdBcdDigits ==
    LdBcdGenerated =>
        LET v == clast.pre.v[clast.inst.register]
            applied == Chip8ExecuteFrom(clast.pre, GeneratedList, 1)
        IN  /\ Len(GeneratedList) = 3
            /\ \A k \in 1..3 :
                  /\ GeneratedList[k].kind = "WriteMemory"
                  /\ GeneratedList[k].target = clast.pre.i + k - 1
                  /\ GeneratedList[k].value \in 0..9
            /\ 100 * GeneratedList[1].value + 10 * GeneratedList[2].value
                  + GeneratedList[3].value = v
            /\ applied.chip = [clast.pre EXCEPT
                                  !.address_space = applied.chip.address_space]
            /\ applied.failed = 0 =>
                  \A k \in 1..3 :
                      MapRead(applied.chip.address_space, clast.pre.i + k - 1)
                          = GeneratedList[k].value

\* V0 = 254 and I = 0x300: the list writes 2, 5 and 4 to 0x300, 0x301, 0x302
C36_Witness ==
    /\ LdBcdGenerated /\ clast.inst.register = 0
    /\ clast.pre.v[0] = 254 /\ clast.pre.i = 768
    /\ GeneratedList = <<WriteMemory(768, 2), WriteMemory(769, 5),
                         WriteMemory(770, 4)>>

\* C37: SHR Vx leaves bit 0 of the old Vx in VF and the old Vx shifted right
\* by one in Vx; SHL Vx leaves bit 7 of the old Vx in VF and the old Vx
\* doubled mod 256 in Vx, both visible when x is not F; whatever y is the
\* list is the same; no other register changes and PC advances by 2.
C37_Shifts ==
    Chip8Ran({"Shr", "Shl"}) =>
        LET x == clast.fetched[2]
            old == clast.pre.v[x]
            flag == IF clast.inst.name = "Shr" THEN old % 2 ELSE old \div 128
            shifted == IF clast.inst.name = "Shr" THEN old \div 2
                       ELSE (old * 2) % 256
        IN  /\ x /= Vf => chip.v[Vf] = flag /\ chip.v[x] = shifted
            /\ \A n \in Nibble \ {x, Vf} : chip.v[n] = clast.pre.v[n]
            /\ \A y \in Nibble :
                  Chip8Generate(clast.pre, [clast.inst EXCEPT !.first = y], 0)
                      = clast.mops
            /\ [chip EXCEPT !.v = 0]
                  = [clast.pre EXCEPT !.v = 0, !.pc = (clast.pre.pc + 2) % 4096]

\* SHL V1 with y = 0, V1 = 0xC8 and V0 = 0x01: V1 = 0x90, VF = 1
C37_Witness ==
    /\ Chip8Ran({"Shl"}) /\ clast.fetched = <<8, 1, 0, 14>>
    /\ clast.pre.v[1] = 200 /\ clast.pre.v[0] = 1 /\ clast.pre.v[Vf] = 1
    /\ chip.v[1] = 144 /\ chip.v[Vf] = 1 /\ chip.v[0] = 1

(***************************************************************************)
(* Claims about the footprint of the 6502 stores and flag instructions.    *)
(***************************************************************************)
StoreRan ==
    /\ last.op = "step" /\ last.result = "ok"
    /\ last.inst.mnemonic \in {"STA", "STX", "STY"}

FlagInstructionRan ==
    /\ last.op = "step" /\ last.result = "ok"
    /\ last.inst.mnemonic \in {"CLC", "SEC", "CLD", "SED", "CLI", "SEI", "CLV"}

\* the effective address of the instruction of the last step
EffectiveAddress ==
    TargetAddress(last.pre, last.prebus, last.inst.mode, last.inst.opnd).addr

\* the flags after the flag instruction of the last step
FlagsAfter ==
    CASE last.inst.mnemonic = "CLC" -> [last.pre.ps EXCEPT !.carry = FALSE]
      [] last.inst.mnemonic = "SEC" -> [last.pre.ps EXCEPT !.carry = TRUE]
      [] last.inst.mnemonic = "CLD" -> [last.pre.ps EXCEPT !.decimal = FALSE]
      [] last.inst.mnemonic = "SED" -> [last.pre.ps EXCEPT !.decimal = TRUE]
      [] last.inst.mnemonic = "CLI" -> [last.pre.ps EXCEPT !.interrupt = FALSE]
      [] last.inst.mnemonic = "SEI" -> [last.pre.ps EXCEPT !.interrupt = TRUE]
      [] last.inst.mnemonic = "CLV" -> [last.pre.ps EXCEPT !.overflow = FALSE]

\* C38: STA, STX and STY change the byte at the effective address and PC and
\* nothing else, no flag and no register, and cost the cycles of their table
\* entry whether or not the index crosses a page; CLC, SEC, CLD, SED, CLI, SEI
\* and CLV change the flag they name and PC and nothing else.
C38_StoreAndFlagFootprint ==
    /\ StoreRan =>
          /\ cpu = [last.pre EXCEPT !.pc = Wrap16(@ + last.inst.offset)]
          /\ bus = LoadByte(last.prebus, EffectiveAddress,
                            CASE last.inst.mnemonic = "STA" -> last.pre.acc
                              [] last.inst.mnemonic = "STX" -> last.pre.x
                              [] last.inst.mnemonic = "STY" -> last.pre.y)
          /\ last.mops.cycles = last.inst.cycles
          /\ Len(MOpsIntoCycles(last.mops)) = last.inst.cycles
    /\ FlagInstructionRan =>
          /\ cpu = [last.pre EXCEPT !.pc = Wrap16(@ + 1), !.ps = FlagsAfter]
          /\ bus = last.prebus

\* STA $00FF,X with X = 1 and ACC = 0x50: 0x0100, on the next page, holds 0x50
\* after 5 cycles
C38_Witness ==
    /\ StoreRan /\ last.fetched = <<157, 255, 0>>
    /\ last.pre.x = 1 /\ last.pre.acc = 80
    /\ MapRead(last.prebus, 256) /= 80 /\ MapRead(bus, 256) = 80
    /\ last.mops.cycles = 5 /\ cpu.ps = last.pre.ps

====
